---- MODULE Spec2Model ----
(***************************************************************************)
(* The event/state engine of the maestro-cli terminal dashboard            *)
(* (internal/tui): the Bubble Tea Model, its Update function and the       *)
(* asynchronous commands Update returns.  The Model is one record `m`;     *)
(* every handler is an operator from a Model (and a message) to the pair   *)
(* of the new Model and the batch of commands it returns, as in the Go     *)
(* code.  Commands run outside Update: they sit in the bag `inflight`      *)
(* until the runtime delivers their completion message.                    *)
(*                                                                         *)
(* Left out: the spinner and cursor-blink ticks (they only advance         *)
(* spinnerIdx / the blink phase, which no handler reads), the text of the  *)
(* connect form (it only feeds the client configuration) and the detail    *)
(* viewport widget.                                                        *)
(***************************************************************************)
EXTENDS Integers, Sequences, FiniteSets, Bags, TLC

\* ─── Bounds ────────────────────────────────────────────────────────────────
MaxText == 1        \* characters typed into the filter and the search input
MaxName == 2        \* characters typed into the create-consumer input
MaxInflight == 2    \* commands and timers running at the same time
TermWidth == 10     \* terminal size reported by the window-size message
TermHeight == 9

\* ─── Strings: sequences of bytes ───────────────────────────────────────────
\* An ASCII character is one byte, written as a one-character string.  The
\* Kelvin sign U+212A is the three bytes E2 84 AA; unicode.ToLower maps it to
\* the one-byte letter k.
Empty == <<>>

KelvinSign == <<"xE2", "x84", "xAA">>

ToLowerChar(c) ==
    CASE c = "N" -> "n"
      [] c = "Y" -> "y"
      [] c = "R" -> "r"
      [] OTHER -> c

\* strings.ToLower: every character is replaced by its lower-case form, which
\* may have fewer bytes than the character.
RECURSIVE ToLower(_)
ToLower(s) ==
    IF s = <<>> THEN <<>>
    ELSE IF Len(s) >= 3 /\ SubSeq(s, 1, 3) = KelvinSign
         THEN <<"k">> \o ToLower(SubSeq(s, 4, Len(s)))
    ELSE <<ToLowerChar(Head(s))>> \o ToLower(Tail(s))

\* strings.Index(s[pos:], q) + pos, 0-based; -1 when q does not occur.
IndexFrom(s, q, pos) ==
    LET hits == {i \in pos..(Len(s) - Len(q)) :
                    \A j \in 1..Len(q) : s[i + j] = q[j]}
    IN IF hits = {} THEN -1 ELSE CHOOSE i \in hits : \A k \in hits : i <= k

Contains(s, q) == IndexFrom(s, q, 0) >= 0

\* strings.TrimSpace, for the characters a text input can hold.
RECURSIVE TrimLeft(_)
TrimLeft(s) == IF s # <<>> /\ Head(s) = " " THEN TrimLeft(Tail(s)) ELSE s

RECURSIVE TrimRight(_)
TrimRight(s) ==
    IF s # <<>> /\ s[Len(s)] = " " THEN TrimRight(SubSeq(s, 1, Len(s) - 1)) ELSE s

TrimSpace(s) == TrimRight(TrimLeft(s))

\* ─── Backend data (maestro.ConsumerInfo, maestro.ResourceBundleSummary) ────
ConsumerInfo(c) == [ID |-> <<"id", c>>, Name |-> <<"name", c>>]

WorkName(i) ==
    CASE i % 3 = 1 -> <<"n", "d">>
      [] i % 3 = 2 -> <<"N", "r">>
      [] OTHER     -> <<"r", "w">>

Summary(c, i) ==
    [ID |-> <<"rb", c, i>>, Name |-> WorkName(i), ConsumerName |-> <<"name", c>>]

RECURSIVE SortedSeq(_)
SortedSeq(S) ==
    IF S = {} THEN <<>>
    ELSE LET x == CHOOSE y \in S : \A z \in S : y <= z
         IN <<x>> \o SortedSeq(S \ {x})

\* The lists a list call may return when the backend knows nc consumers and
\* nm work records per consumer: the records that still exist, in order.
ConsumerLists(nc) ==
    {[k \in 1..Len(q) |-> ConsumerInfo(q[k])] :
        q \in {SortedSeq(S) : S \in SUBSET (1..nc)}}

ManifestLists(c, nm) ==
    {[k \in 1..Len(q) |-> Summary(c, q[k])] :
        q \in {SortedSeq(S) : S \in SUBSET (1..nm)}}

ConsumerOfName(name) == name[2]

\* ─── Rendered detail strings ───────────────────────────────────────────────
\* A rendered detail string is named by its format and the record it shows;
\* Empty is the empty string.
Rendered(fmt, mw) == <<fmt, mw.ID>>

\* renderDetail: the formatted view of a fetched record.
renderDetail(detail) == Rendered("formatted", detail)

\* strings.Split(content, "\n") followed by stripANSI on every line.
PlainLines(content) ==
    IF content = Empty THEN << <<>> >>
    ELSE IF content[2][1] = "text" THEN content[2][2]
    ELSE LET name == WorkName(content[2][3])
         IN CASE content[1] = "formatted" -> <<name, <<"n", "N">> >>
              [] content[1] = "json"      -> << <<"n">>, name>>
              [] OTHER                    -> <<name>>

\* ─── Screen / panel states ─────────────────────────────────────────────────
screenConnect == "connect"
screenMain == "main"

panelConsumers == 0
panelManifests == 1
panelDetail == 2

viewModeFormatted == 0
viewModeJSON == 1
viewModeYAML == 2

\* detailViewMode.next
next(mode) == (mode + 1) % 3

\* ─── Text inputs (bubbles/textinput): value and focus ──────────────────────
Runes == {"n", "N", "d", "r", "R", "y", "Y", "w", "v", "/", " ", "k", "j"}

SpecialKeys == {"tab", "shift+tab", "up", "down", "enter", "esc", "backspace", "ctrl+c"}

NewInput == [value |-> Empty, focus |-> FALSE]

\* textinput.Model.Update: a focused input appends a typed character and
\* drops its last character on backspace; every other message leaves the
\* value alone.
InputUpdate(ti, msg) ==
    IF ~ti.focus \/ msg.type # "key" THEN ti
    ELSE IF msg.key \in Runes THEN [ti EXCEPT !.value = Append(@, msg.key)]
    ELSE IF msg.key = "backspace" /\ ti.value # Empty
         THEN [ti EXCEPT !.value = SubSeq(@, 1, Len(@) - 1)]
    ELSE ti

\* ─── Model ─────────────────────────────────────────────────────────────────
\* New: the Model after construction.
New ==
    [width |-> 0, height |-> 0,
     screen |-> screenConnect,
     connectFocusIdx |-> 0,
     connectLoading |-> FALSE,
     client |-> FALSE,
     focused |-> panelConsumers,
     consumers |-> <<>>, consumerCursor |-> 0, consumerOffset |-> 0,
     manifests |-> <<>>, manifestCursor |-> 0, manifestOffset |-> 0,
     filterInput |-> NewInput, filtering |-> FALSE, filterText |-> Empty,
     detailContent |-> Empty, detailFormatted |-> Empty,
     detailJSON |-> Empty, detailYAML |-> Empty,
     detailRawJSON |-> Empty, detailRawYAML |-> Empty,
     detailViewMode |-> viewModeFormatted,
     searchInput |-> NewInput, searching |-> FALSE, searchText |-> Empty,
     searchMatches |-> <<>>, searchCurrent |-> 0,
     watching |-> FALSE,
     showCreateConsumer |-> FALSE, createInput |-> NewInput,
     showConfirm |-> FALSE, confirmKind |-> "", confirmID |-> Empty,
     confirmName |-> Empty,
     loading |-> FALSE, statusMsg |-> Empty, errMsg2 |-> Empty]

\* What Update and the handlers return: the new Model and the batch of
\* commands; exit is "quit" for tea.Quit and "panic" for a run-time panic.
Ret(mm, cc) == [m |-> mm, cmds |-> cc, exit |-> "none"]

Quit(mm) == [m |-> mm, cmds |-> <<>>, exit |-> "quit"]

Panic(mm) == [m |-> mm, cmds |-> <<>>, exit |-> "panic"]

\* ─── Commands ──────────────────────────────────────────────────────────────
connectCmd == [type |-> "connect"]
reloadConsumers == [type |-> "reloadConsumers"]
loadManifests(consumerName) == [type |-> "loadManifests", consumerName |-> consumerName]
\* by: the call site, "tick" for the watch-tick handler and "user" otherwise.
loadDetail(mw, by) == [type |-> "loadDetail", mw |-> mw, by |-> by]
createConsumerCmd(name) == [type |-> "createConsumer", name |-> name]
deleteConsumerCmd(id) == [type |-> "deleteConsumer", id |-> id]
deleteManifestCmd(id) == [type |-> "deleteManifest", id |-> id]
watchTick == [type |-> "watchTick"]

\* ─── Helpers ───────────────────────────────────────────────────────────────
\* Mutant of filteredManifests: the names are compared as they are written.
filteredManifests_caseSensitive(mm) ==
    IF mm.filterText = Empty THEN mm.manifests
    ELSE LET keep(mw) == Contains(mw.Name, mm.filterText)
         IN SelectSeq(mm.manifests, keep)

filteredManifests(mm) ==
    IF mm.filterText = Empty THEN mm.manifests
    ELSE LET lower == ToLower(mm.filterText)
             keep(mw) == Contains(ToLower(mw.Name), lower)
         IN SelectSeq(mm.manifests, keep)

\* selectedManifest: the record under the cursor, or none (nil).
NoManifest == [ID |-> Empty]

selectedManifest(mm) ==
    LET visible == filteredManifests(mm)
    IN IF Len(visible) = 0 \/ mm.manifestCursor >= Len(visible)
       THEN NoManifest
       ELSE visible[mm.manifestCursor + 1]

activeDetailContent(mm) ==
    IF mm.detailViewMode = viewModeJSON /\ mm.detailJSON # Empty THEN mm.detailJSON
    ELSE IF mm.detailViewMode = viewModeYAML /\ mm.detailYAML # Empty THEN mm.detailYAML
    ELSE mm.detailFormatted

\* ─── Escape sequences and search highlight injection ───────────────────────
\* ESC is the byte 1B.  A CSI escape sequence is ESC '[' <params> <letter>.
ESC == "x1B"

Params == {"0", "1", "2", "3", "4", "5", "6", "7", "8", "9", ";"}

Letters ==
    {"a", "b", "c", "d", "e", "f", "g", "h", "i", "j", "k", "l", "m",
     "n", "o", "p", "q", "r", "s", "t", "u", "v", "w", "x", "y", "z",
     "A", "B", "C", "D", "E", "F", "G", "H", "I", "J", "K", "L", "M",
     "N", "O", "P", "Q", "R", "S", "T", "U", "V", "W", "X", "Y", "Z"}

\* The 0-based offset of the first byte at or after j that is not a parameter
\* byte; Len(s) when there is none.
RECURSIVE SkipParams(_, _)
SkipParams(s, j) ==
    IF j < Len(s) /\ s[j + 1] \in Params THEN SkipParams(s, j + 1) ELSE j

\* s[a:b] for 0-based byte offsets a <= b.
Slice(s, a, b) == SubSeq(s, a + 1, b)

\* ansiEscRe.ReplaceAllString(s, ""): every leftmost match of
\* \x1b\[[0-9;]*[a-zA-Z] is removed; a byte no match starts at is kept.
RECURSIVE stripANSI(_)
stripANSI(s) ==
    IF s = <<>> THEN <<>>
    ELSE IF s[1] = ESC /\ Len(s) >= 2 /\ s[2] = "["
         THEN LET j == SkipParams(s, 2)
              IN IF j < Len(s) /\ s[j + 1] \in Letters
                 THEN stripANSI(Slice(s, j + 1, Len(s)))
                 ELSE <<s[1]>> \o stripANSI(Tail(s))
    ELSE <<s[1]>> \o stripANSI(Tail(s))

\* The loop of buildCharMap from byte offset i on, the sentinel included.
RECURSIVE CharMapFrom(_, _)
CharMapFrom(ansiStr, i) ==
    IF i >= Len(ansiStr) THEN <<i>>
    ELSE IF ansiStr[i + 1] = ESC /\ i + 1 < Len(ansiStr) /\ ansiStr[i + 2] = "["
         THEN LET j == SkipParams(ansiStr, i + 2)
              IN CharMapFrom(ansiStr, IF j < Len(ansiStr) THEN j + 1 ELSE j)
    ELSE <<i>> \o CharMapFrom(ansiStr, i + 1)

\* Mutant of buildCharMap: escape sequences are not skipped, every byte is
\* taken for a plain byte.
buildCharMap_ignoresEscapes(ansiStr) == [i \in 1..(Len(ansiStr) + 1) |-> i - 1]

\* buildCharMap: charMap[i + 1] is the offset in ansiStr of plain byte i.
buildCharMap(ansiStr) == CharMapFrom(ansiStr, 0)

BgCurrent == <<ESC, "[", "4", "2", "m">>     \* green: the current match
BgOther == <<ESC, "[", "4", "3", "m">>       \* amber: every other match
BgReset == <<ESC, "[", "4", "9", "m">>

\* The strings injectBgHighlights writes to its builder from range k on, in
\* order; prev is the last written byte position in coloredLine.
RECURSIVE InjectWrites(_, _, _, _, _, _, _)
InjectWrites(coloredLine, charMap, ranges, absIdxs, currentIdx, k, prev) ==
    IF k > Len(ranges) THEN <<Slice(coloredLine, prev, Len(coloredLine))>>
    ELSE LET start == ranges[k][1]
             end == IF ranges[k][2] >= Len(charMap) THEN Len(charMap) - 1
                    ELSE ranges[k][2]
         IN IF start >= Len(charMap) - 1
            THEN InjectWrites(coloredLine, charMap, ranges, absIdxs, currentIdx, k + 1, prev)
            ELSE LET byteStart == charMap[start + 1]
                     byteEnd == charMap[end + 1]
                 IN IF byteStart < prev
                    THEN InjectWrites(coloredLine, charMap, ranges, absIdxs,
                                      currentIdx, k + 1, prev)
                    ELSE <<Slice(coloredLine, prev, byteStart),
                           IF absIdxs[k] = currentIdx THEN BgCurrent ELSE BgOther,
                           Slice(coloredLine, byteStart, byteEnd),
                           BgReset>>
                         \o InjectWrites(coloredLine, charMap, ranges, absIdxs,
                                         currentIdx, k + 1, byteEnd)

\* Everything injectBgHighlights writes: the line itself when there are no
\* ranges.
injectWrites(coloredLine, ranges, absIdxs, currentIdx) ==
    IF Len(ranges) = 0 THEN <<coloredLine>>
    ELSE InjectWrites(coloredLine, buildCharMap(coloredLine), ranges, absIdxs,
                      currentIdx, 1, 0)

\* strings.Builder.String: the written strings, joined.
RECURSIVE Joined(_)
Joined(writes) == IF writes = <<>> THEN <<>> ELSE Head(writes) \o Joined(Tail(writes))

\* Mutant of injectBgHighlights: the text after the last match is not written.
injectBgHighlights_dropsTail(coloredLine, ranges, absIdxs, currentIdx) ==
    LET writes == injectWrites(coloredLine, ranges, absIdxs, currentIdx)
    IN IF Len(ranges) = 0 THEN coloredLine
       ELSE Joined(SubSeq(writes, 1, Len(writes) - 1))

injectBgHighlights(coloredLine, ranges, absIdxs, currentIdx) ==
    Joined(injectWrites(coloredLine, ranges, absIdxs, currentIdx))

\* ─── Search helpers ────────────────────────────────────────────────────────
\* The scan of one line from byte pos on: qlen is len(m.searchText), the
\* length of the query as typed, by which a match extends and the scan advances.
RECURSIVE LineMatches(_, _, _, _, _)
LineMatches(lplain, lower, qlen, lineIdx, pos) ==
    LET idx == IndexFrom(lplain, lower, pos)
    IN IF idx < 0 THEN <<>>
       ELSE <<[line |-> lineIdx, start |-> idx, end |-> idx + qlen]>>
            \o LineMatches(lplain, lower, qlen, lineIdx, idx + qlen)

\* The scan of one line panics: lplain[pos:] is evaluated with pos beyond the
\* end of the line (slice bounds out of range).
RECURSIVE LinePanics(_, _, _, _)
LinePanics(lplain, lower, qlen, pos) ==
    IF pos > Len(lplain) THEN TRUE
    ELSE LET idx == IndexFrom(lplain, lower, pos)
         IN IF idx < 0 THEN FALSE
            ELSE LinePanics(lplain, lower, qlen, idx + qlen)

RECURSIVE AllMatches(_, _, _, _)
AllMatches(lines, lower, qlen, lineIdx) ==
    IF lineIdx >= Len(lines) THEN <<>>
    ELSE LineMatches(ToLower(lines[lineIdx + 1]), lower, qlen, lineIdx, 0)
         \o AllMatches(lines, lower, qlen, lineIdx + 1)

rebuildSearchPanics(mm) ==
    /\ mm.searchText # Empty
    /\ LET lines == PlainLines(mm.detailContent)
       IN \E i \in 1..Len(lines) :
            LinePanics(ToLower(lines[i]), ToLower(mm.searchText), Len(mm.searchText), 0)

rebuildSearch(mm) ==
    IF mm.searchText = Empty
    THEN [mm EXCEPT !.searchMatches = <<>>, !.searchCurrent = 0]
    ELSE LET found == AllMatches(PlainLines(mm.detailContent), ToLower(mm.searchText),
                                 Len(mm.searchText), 0)
         IN [mm EXCEPT !.searchMatches = found,
                       !.searchCurrent = IF @ >= Len(found) THEN 0 ELSE @]

\* Mutant of nextSearchMatch: the step stops at the last match.
nextSearchMatch_noWrap(mm) ==
    IF Len(mm.searchMatches) = 0 THEN mm
    ELSE [mm EXCEPT !.searchCurrent =
                        IF @ + 1 >= Len(mm.searchMatches) THEN @ ELSE @ + 1]

nextSearchMatch(mm) ==
    IF Len(mm.searchMatches) = 0 THEN mm
    ELSE [mm EXCEPT !.searchCurrent = (@ + 1) % Len(mm.searchMatches)]

prevSearchMatch(mm) ==
    IF Len(mm.searchMatches) = 0 THEN mm
    ELSE [mm EXCEPT !.searchCurrent =
                        (@ - 1 + Len(mm.searchMatches)) % Len(mm.searchMatches)]

\* Mutant of clearSearch: the search bar closes and the matches stay.
clearSearch_keepsMatches(mm) ==
    [mm EXCEPT !.searching = FALSE, !.searchText = Empty,
               !.searchInput = [value |-> Empty, focus |-> FALSE]]

clearSearch(mm) ==
    [mm EXCEPT !.searching = FALSE, !.searchText = Empty,
               !.searchInput = [value |-> Empty, focus |-> FALSE],
               !.searchMatches = <<>>, !.searchCurrent = 0]

\* strings.Split(content, "\n") of a rendered detail string: the colorizers
\* and renderDetail wrap the text of a line in a foreground colour and a reset;
\* the lines of a text record carry no colour.
FgColor == <<ESC, "[", "3", "6", "m">>
FgReset == <<ESC, "[", "0", "m">>

Lines(content) ==
    LET plain == PlainLines(content)
    IN IF content = Empty \/ content[2][1] = "text" THEN plain
       ELSE [i \in 1..Len(plain) |->
                IF plain[i] = <<>> THEN <<>> ELSE FgColor \o plain[i] \o FgReset]

\* The matches on line lineIdx, as applySearchHighlights groups them: their
\* ranges and their indexes in searchMatches, in order.
MatchIdxs(matches, lineIdx) ==
    SelectSeq([k \in 1..Len(matches) |-> k - 1],
              LAMBDA k : matches[k + 1].line = lineIdx)

\* applySearchHighlights: the lines pushed into the viewport.
applySearchHighlights(mm, lines) ==
    [i \in 1..Len(lines) |->
        LET absIdxs == MatchIdxs(mm.searchMatches, i - 1)
            ranges == [k \in 1..Len(absIdxs) |->
                          <<mm.searchMatches[absIdxs[k] + 1].start,
                            mm.searchMatches[absIdxs[k] + 1].end>>]
        IN IF Len(absIdxs) > 0
           THEN injectBgHighlights(lines[i], ranges, absIdxs, mm.searchCurrent)
           ELSE lines[i]]

cycleDetailViewModePanics(mm) ==
    LET m1 == [mm EXCEPT !.detailViewMode = next(@)]
        m2 == [m1 EXCEPT !.detailContent = activeDetailContent(m1)]
    IN rebuildSearchPanics(m2)

cycleDetailViewMode(mm) ==
    LET m1 == [mm EXCEPT !.detailViewMode = next(@)]
        m2 == [m1 EXCEPT !.detailContent = activeDetailContent(m1)]
    IN IF m2.searchText # Empty THEN rebuildSearch(m2) ELSE m2

\* ─── Clipboard ─────────────────────────────────────────────────────────────
\* The text put on the clipboard: a raw serialization, or the formatted
\* text with its escape sequences stripped.
Stripped(content) == IF content = Empty THEN Empty ELSE <<"plain", content>>

\* The lines of a text put on the clipboard: a raw serialization is the text
\* the colorizer was given, a stripped text is stripANSI of the rendered text.
ClipboardLines(text) ==
    IF text = Empty THEN << <<>> >>
    ELSE IF text[1] = "plain"
         THEN [i \in 1..Len(Lines(text[2])) |-> stripANSI(Lines(text[2])[i])]
    ELSE IF text[1] = "rawjson" THEN PlainLines(<<"json", text[2]>>)
    ELSE IF text[1] = "rawyaml" THEN PlainLines(<<"yaml", text[2]>>)
    ELSE Lines(text)

\* Mutant of clipboardContent: the text copied is the text shown.
clipboardContent_copiesShown(mm) == mm.detailContent

clipboardContent(mm) ==
    IF mm.detailViewMode = viewModeJSON /\ mm.detailRawJSON # Empty THEN mm.detailRawJSON
    ELSE IF mm.detailViewMode = viewModeYAML /\ mm.detailRawYAML # Empty THEN mm.detailRawYAML
    ELSE Stripped(mm.detailFormatted)

copyToClipboardCmd(mm) == [type |-> "clipboard", content |-> clipboardContent(mm)]

\* ─── Key handlers ──────────────────────────────────────────────────────────
doConnect(mm) ==
    Ret([mm EXCEPT !.connectLoading = TRUE, !.errMsg2 = Empty], <<connectCmd>>)

\* Mutant of handleConnectKey: Enter on the last field opens the dashboard
\* without waiting for the connection.
handleConnectKey_entersMain(mm, msg) ==
    CASE msg.key = "tab" ->
            Ret([mm EXCEPT !.connectFocusIdx = (@ + 1) % 4], <<>>)
      [] msg.key = "shift+tab" ->
            Ret([mm EXCEPT !.connectFocusIdx = (@ + 3) % 4], <<>>)
      [] msg.key = "enter" ->
            IF mm.connectFocusIdx = 3 \/ mm.connectFocusIdx = 1
            THEN Ret([mm EXCEPT !.connectLoading = TRUE, !.errMsg2 = Empty,
                                !.screen = screenMain], <<connectCmd>>)
            ELSE Ret([mm EXCEPT !.connectFocusIdx = (@ + 1) % 4], <<>>)
      [] OTHER -> Ret(mm, <<>>)

handleConnectKey(mm, msg) ==
    CASE msg.key = "tab" ->
            Ret([mm EXCEPT !.connectFocusIdx = (@ + 1) % 4], <<>>)
      [] msg.key = "shift+tab" ->
            Ret([mm EXCEPT !.connectFocusIdx = (@ + 3) % 4], <<>>)
      [] msg.key = "enter" ->
            IF mm.connectFocusIdx = 3 \/ mm.connectFocusIdx = 1
            THEN doConnect(mm)
            ELSE Ret([mm EXCEPT !.connectFocusIdx = (@ + 1) % 4], <<>>)
      [] OTHER -> Ret(mm, <<>>)

\* Mutant of handleCreateConsumerKey: Enter submits the text as typed, blank
\* or not.
handleCreateConsumerKey_noValidation(mm, msg) ==
    CASE msg.key = "esc" ->
            Ret([mm EXCEPT !.showCreateConsumer = FALSE, !.createInput.value = Empty], <<>>)
      [] msg.key = "enter" ->
            Ret([mm EXCEPT !.loading = TRUE, !.errMsg2 = Empty],
                <<createConsumerCmd(mm.createInput.value)>>)
      [] OTHER -> Ret(mm, <<>>)

handleCreateConsumerKey(mm, msg) ==
    CASE msg.key = "esc" ->
            Ret([mm EXCEPT !.showCreateConsumer = FALSE, !.createInput.value = Empty], <<>>)
      [] msg.key = "enter" ->
            LET name == TrimSpace(mm.createInput.value)
            IN IF name = Empty THEN Ret(mm, <<>>)
               ELSE Ret([mm EXCEPT !.loading = TRUE, !.errMsg2 = Empty],
                        <<createConsumerCmd(name)>>)
      [] OTHER -> Ret(mm, <<>>)

\* Mutant of handleConfirmKey: the record deleted is the one selected when the
\* deletion is confirmed.
handleConfirmKey_deletesSelected(mm, msg) ==
    CASE msg.key = "esc" -> Ret([mm EXCEPT !.showConfirm = FALSE], <<>>)
      [] msg.key = "y" \/ msg.key = "Y" ->
            LET m1 == [mm EXCEPT !.loading = TRUE, !.showConfirm = FALSE,
                                 !.errMsg2 = Empty]
            IN CASE mm.confirmKind = "consumer" -> Ret(m1, <<deleteConsumerCmd(mm.confirmID)>>)
                 [] mm.confirmKind = "manifest" ->
                        Ret(m1, <<deleteManifestCmd(selectedManifest(mm).ID)>>)
                 [] OTHER -> Ret(m1, <<>>)
      [] OTHER -> Ret(mm, <<>>)

\* Mutant of handleConfirmKey: every key but Escape confirms the deletion.
handleConfirmKey_anyKeyConfirms(mm, msg) ==
    CASE msg.key = "esc" -> Ret([mm EXCEPT !.showConfirm = FALSE], <<>>)
      [] OTHER ->
            LET m1 == [mm EXCEPT !.loading = TRUE, !.showConfirm = FALSE,
                                 !.errMsg2 = Empty]
            IN CASE mm.confirmKind = "consumer" -> Ret(m1, <<deleteConsumerCmd(mm.confirmID)>>)
                 [] mm.confirmKind = "manifest" -> Ret(m1, <<deleteManifestCmd(mm.confirmID)>>)
                 [] OTHER -> Ret(m1, <<>>)

handleConfirmKey(mm, msg) ==
    CASE msg.key = "esc" -> Ret([mm EXCEPT !.showConfirm = FALSE], <<>>)
      [] msg.key = "y" \/ msg.key = "Y" ->
            LET m1 == [mm EXCEPT !.loading = TRUE, !.showConfirm = FALSE,
                                 !.errMsg2 = Empty]
            IN CASE mm.confirmKind = "consumer" -> Ret(m1, <<deleteConsumerCmd(mm.confirmID)>>)
                 [] mm.confirmKind = "manifest" -> Ret(m1, <<deleteManifestCmd(mm.confirmID)>>)
                 [] OTHER -> Ret(m1, <<>>)
      [] OTHER -> Ret(mm, <<>>)

\* The watch toggle shared by the work-list and the detail panel ('w').
toggleWatch(mm) ==
    IF ~mm.watching
    THEN Ret([mm EXCEPT !.watching = TRUE, !.statusMsg = <<"Watch mode ON">>], <<watchTick>>)
    ELSE Ret([mm EXCEPT !.watching = FALSE, !.statusMsg = <<"Watch mode OFF">>], <<>>)

handleConsumersKey(mm, msg) ==
    CASE msg.key = "tab" -> Ret([mm EXCEPT !.focused = panelManifests], <<>>)
      [] msg.key = "shift+tab" -> Ret([mm EXCEPT !.focused = panelDetail], <<>>)
      [] msg.key = "up" \/ msg.key = "k" ->
            Ret(IF mm.consumerCursor > 0
                THEN [mm EXCEPT !.consumerCursor = @ - 1] ELSE mm, <<>>)
      [] msg.key = "down" \/ msg.key = "j" ->
            Ret(IF mm.consumerCursor < Len(mm.consumers) - 1
                THEN [mm EXCEPT !.consumerCursor = @ + 1] ELSE mm, <<>>)
      [] msg.key = "enter" ->
            IF Len(mm.consumers) > 0
            THEN IF mm.consumerCursor >= Len(mm.consumers) THEN Panic(mm)
                 ELSE Ret([mm EXCEPT !.loading = TRUE, !.manifests = <<>>,
                                     !.detailContent = Empty],
                          <<loadManifests(mm.consumers[mm.consumerCursor + 1].Name)>>)
            ELSE Ret(mm, <<>>)
      [] msg.key = "n" ->
            Ret([mm EXCEPT !.showCreateConsumer = TRUE,
                           !.createInput = [value |-> Empty, focus |-> TRUE]], <<>>)
      [] msg.key = "d" ->
            IF Len(mm.consumers) > 0
            THEN IF mm.consumerCursor >= Len(mm.consumers) THEN Panic(mm)
                 ELSE LET c == mm.consumers[mm.consumerCursor + 1]
                      IN Ret([mm EXCEPT !.showConfirm = TRUE, !.confirmKind = "consumer",
                                        !.confirmID = c.ID, !.confirmName = c.Name], <<>>)
            ELSE Ret(mm, <<>>)
      [] msg.key = "r" -> Ret([mm EXCEPT !.loading = TRUE], <<reloadConsumers>>)
      [] msg.key = "y" -> Ret(mm, <<copyToClipboardCmd(mm)>>)
      [] OTHER -> Ret(mm, <<>>)

handleManifestsKey(mm, msg) ==
    IF mm.filtering
    THEN CASE msg.key = "esc" ->
                Ret([mm EXCEPT !.filtering = FALSE, !.filterText = Empty,
                               !.filterInput = [value |-> Empty, focus |-> FALSE],
                               !.manifestCursor = 0, !.manifestOffset = 0], <<>>)
           [] msg.key = "enter" ->
                Ret([mm EXCEPT !.filtering = FALSE, !.filterInput.focus = FALSE], <<>>)
           [] OTHER -> Ret(mm, <<>>)
    ELSE
    CASE msg.key = "tab" -> Ret([mm EXCEPT !.focused = panelDetail], <<>>)
      [] msg.key = "shift+tab" -> Ret([mm EXCEPT !.focused = panelConsumers], <<>>)
      [] msg.key = "up" \/ msg.key = "k" ->
            LET visible == filteredManifests(mm)
            IN IF mm.manifestCursor > 0
               THEN LET m1 == [mm EXCEPT !.manifestCursor = @ - 1]
                        m2 == IF m1.manifestCursor < m1.manifestOffset
                              THEN [m1 EXCEPT !.manifestOffset = m1.manifestCursor]
                              ELSE m1
                    IN IF Len(visible) > 0
                       THEN IF m2.manifestCursor >= Len(visible) THEN Panic(m2)
                            ELSE Ret(m2, <<loadDetail(visible[m2.manifestCursor + 1], "user")>>)
                       ELSE Ret(m2, <<>>)
               ELSE Ret(mm, <<>>)
      [] msg.key = "down" \/ msg.key = "j" ->
            LET visible == filteredManifests(mm)
            IN IF mm.manifestCursor < Len(visible) - 1
               THEN LET m1 == [mm EXCEPT !.manifestCursor = @ + 1]
                    IN Ret(m1, <<loadDetail(visible[m1.manifestCursor + 1], "user")>>)
               ELSE Ret(mm, <<>>)
      [] msg.key = "/" ->
            Ret([mm EXCEPT !.filtering = TRUE, !.filterInput.focus = TRUE], <<>>)
      [] msg.key = "w" -> toggleWatch(mm)
      [] msg.key = "v" ->
            IF cycleDetailViewModePanics(mm) THEN Panic(mm)
            ELSE Ret(cycleDetailViewMode(mm), <<>>)
      [] msg.key = "d" ->
            LET visible == filteredManifests(mm)
            IN IF Len(visible) > 0
               THEN IF mm.manifestCursor >= Len(visible) THEN Panic(mm)
                    ELSE LET mw == visible[mm.manifestCursor + 1]
                         IN Ret([mm EXCEPT !.showConfirm = TRUE, !.confirmKind = "manifest",
                                           !.confirmID = mw.ID, !.confirmName = mw.Name], <<>>)
               ELSE Ret(mm, <<>>)
      [] msg.key = "r" ->
            IF Len(mm.consumers) > 0
            THEN IF mm.consumerCursor >= Len(mm.consumers) THEN Panic(mm)
                 ELSE Ret([mm EXCEPT !.loading = TRUE],
                          <<loadManifests(mm.consumers[mm.consumerCursor + 1].Name)>>)
            ELSE Ret(mm, <<>>)
      [] msg.key = "y" -> Ret(mm, <<copyToClipboardCmd(mm)>>)
      [] OTHER -> Ret(mm, <<>>)

handleDetailKey(mm, msg) ==
    IF mm.searching
    THEN CASE msg.key = "esc" -> Ret(clearSearch(mm), <<>>)
           [] msg.key = "enter" -> Ret(nextSearchMatch(mm), <<>>)
           [] OTHER -> Ret(mm, <<>>)
    ELSE
    CASE msg.key = "tab" -> Ret([mm EXCEPT !.focused = panelConsumers], <<>>)
      [] msg.key = "shift+tab" -> Ret([mm EXCEPT !.focused = panelManifests], <<>>)
      [] msg.key = "/" ->
            Ret([mm EXCEPT !.searching = TRUE, !.searchInput.focus = TRUE], <<>>)
      [] msg.key = "n" -> Ret(nextSearchMatch(mm), <<>>)
      [] msg.key = "N" -> Ret(prevSearchMatch(mm), <<>>)
      [] msg.key = "w" -> toggleWatch(mm)
      [] msg.key = "v" ->
            IF cycleDetailViewModePanics(mm) THEN Panic(mm)
            ELSE Ret(cycleDetailViewMode(mm), <<>>)
      [] msg.key = "y" -> Ret(mm, <<copyToClipboardCmd(mm)>>)
      [] msg.key = "r" ->
            LET selected == selectedManifest(mm)
            IN IF selected # NoManifest
               THEN Ret([mm EXCEPT !.loading = TRUE], <<loadDetail(selected, "user")>>)
               ELSE Ret(mm, <<>>)
      [] OTHER -> Ret(mm, <<>>)

handleMainKey(mm, msg) ==
    CASE mm.focused = panelConsumers -> handleConsumersKey(mm, msg)
      [] mm.focused = panelManifests -> handleManifestsKey(mm, msg)
      [] OTHER -> handleDetailKey(mm, msg)

\* ─── Mouse handler ─────────────────────────────────────────────────────────
\* int(float64(n) * 0.40): the product truncated toward zero.
Frac40(n) == IF n >= 0 THEN (n * 4) \div 10 ELSE -(((-n) * 4) \div 10)

mouseClickConsumer(mm, y) ==
    LET itemY == y - 2
        idx == itemY + mm.consumerOffset
    IN IF itemY < 0 THEN Ret([mm EXCEPT !.focused = panelConsumers], <<>>)
       ELSE IF idx >= Len(mm.consumers) THEN Ret([mm EXCEPT !.focused = panelConsumers], <<>>)
       ELSE IF idx < 0 THEN Panic(mm)
       ELSE Ret([mm EXCEPT !.focused = panelConsumers, !.consumerCursor = idx,
                           !.loading = TRUE, !.manifests = <<>>,
                           !.detailContent = Empty],
                <<loadManifests(mm.consumers[idx + 1].Name)>>)

\* Mutant of mouseClickManifest: the window scrolls to the clicked record.
mouseClickManifest_scrolls(mm, y, consumerH) ==
    LET itemY == y - consumerH - 3
        visible == filteredManifests(mm)
        idx == itemY + mm.manifestOffset
    IN IF itemY < 0 \/ idx >= Len(visible)
       THEN Ret([mm EXCEPT !.focused = panelManifests], <<>>)
       ELSE Ret([mm EXCEPT !.focused = panelManifests, !.manifestCursor = idx,
                           !.manifestOffset = idx],
                <<loadDetail(visible[idx + 1], "user")>>)

mouseClickManifest(mm, y, consumerH) ==
    LET panelY == y - consumerH
        itemY == panelY - 3
        visible == filteredManifests(mm)
        idx == itemY + mm.manifestOffset
    IN IF itemY < 0 THEN Ret([mm EXCEPT !.focused = panelManifests], <<>>)
       ELSE IF idx >= Len(visible) THEN Ret([mm EXCEPT !.focused = panelManifests], <<>>)
       ELSE IF idx < 0 THEN Panic(mm)
       ELSE Ret([mm EXCEPT !.focused = panelManifests, !.manifestCursor = idx],
                <<loadDetail(visible[idx + 1], "user")>>)

handleMouse(mm, msg) ==
    IF mm.screen # screenMain THEN Ret(mm, <<>>)
    ELSE
    LET leftW == Frac40(mm.width)
        totalH == mm.height - 1
        consumerH == Frac40(totalH)
        x == msg.x
        y == msg.y
    IN CASE msg.button = "left" ->
              IF msg.action # "press" THEN Ret(mm, <<>>)
              ELSE IF x < leftW
                   THEN IF y < consumerH THEN mouseClickConsumer(mm, y)
                        ELSE mouseClickManifest(mm, y, consumerH)
                   ELSE Ret([mm EXCEPT !.focused = panelDetail], <<>>)
         [] msg.button = "wheelup" ->
              IF x < leftW
              THEN IF y < consumerH
                   THEN Ret(IF mm.consumerCursor > 0
                            THEN [mm EXCEPT !.consumerCursor = @ - 1] ELSE mm, <<>>)
                   ELSE IF mm.manifestCursor > 0
                        THEN LET m1 == [mm EXCEPT !.manifestCursor = @ - 1]
                                 sel == selectedManifest(m1)
                             IN IF sel # NoManifest
                                THEN Ret(m1, <<loadDetail(sel, "user")>>)
                                ELSE Ret(m1, <<>>)
                        ELSE Ret(mm, <<>>)
              ELSE Ret(mm, <<>>)
         [] msg.button = "wheeldown" ->
              IF x < leftW
              THEN IF y < consumerH
                   THEN Ret(IF mm.consumerCursor < Len(mm.consumers) - 1
                            THEN [mm EXCEPT !.consumerCursor = @ + 1] ELSE mm, <<>>)
                   ELSE LET visible == filteredManifests(mm)
                        IN IF mm.manifestCursor < Len(visible) - 1
                           THEN LET m1 == [mm EXCEPT !.manifestCursor = @ + 1]
                                    sel == selectedManifest(m1)
                                IN IF sel # NoManifest
                                   THEN Ret(m1, <<loadDetail(sel, "user")>>)
                                   ELSE Ret(m1, <<>>)
                           ELSE Ret(mm, <<>>)
              ELSE Ret(mm, <<>>)
         [] OTHER -> Ret(mm, <<>>)

\* ─── Rendering of the list panels ──────────────────────────────────────────
\* The index of the consumer viewConsumers renders on screen row y, -1 when
\* the row shows none: the panel starts at row 0 with its top border and its
\* title, then come the items i of the window consumerOffset <= i <
\* consumerOffset + innerH, one per row.  Lines are taken not to wrap.
viewConsumersRow(mm, y) ==
    LET h == Frac40(mm.height - 1)
        innerH == IF h - 3 < 1 THEN 1 ELSE h - 3
        i == y - 2 + mm.consumerOffset
    IN IF y - 2 >= 0 /\ i < mm.consumerOffset + innerH /\ i < Len(mm.consumers)
       THEN i ELSE -1

\* The index in the visible work list of the record viewManifests renders on
\* screen row y, -1 when the row shows none: the panel starts below the
\* consumers panel with its top border, its title and the filter row, then
\* come the items of the window manifestOffset <= i < manifestOffset + innerH.
viewManifestsRow(mm, y) ==
    LET totalH == mm.height - 1
        consumerH == Frac40(totalH)
        h == totalH - consumerH
        innerH == IF h - 4 < 1 THEN 1 ELSE h - 4
        i == y - consumerH - 3 + mm.manifestOffset
    IN IF y - consumerH - 3 >= 0 /\ i < mm.manifestOffset + innerH
          /\ i < Len(filteredManifests(mm))
       THEN i ELSE -1

\* ─── Update ────────────────────────────────────────────────────────────────
\* Step 1 of Update: every message is first forwarded to the active
\* sub-component.
Forward(mm, msg) ==
    IF mm.screen # screenMain THEN mm
    ELSE IF mm.showCreateConsumer
         THEN [mm EXCEPT !.createInput = InputUpdate(@, msg)]
    ELSE IF mm.filtering
         THEN LET fi == InputUpdate(mm.filterInput, msg)
                  m1 == [mm EXCEPT !.filterInput = fi, !.filterText = fi.value]
              IN IF m1.filterText # mm.filterText
                 THEN [m1 EXCEPT !.manifestCursor = 0, !.manifestOffset = 0]
                 ELSE m1
    ELSE IF mm.searching
         THEN LET si == InputUpdate(mm.searchInput, msg)
                  m1 == [mm EXCEPT !.searchInput = si, !.searchText = si.value]
              IN IF m1.searchText # mm.searchText THEN rebuildSearch(m1) ELSE m1
    ELSE mm

\* The routing of a key message (the tea.KeyMsg case of Update).
RouteKey(mm, msg) ==
    IF msg.key = "ctrl+c" THEN Quit(mm)
    ELSE IF mm.screen = screenConnect THEN handleConnectKey(mm, msg)
    ELSE IF mm.showCreateConsumer THEN handleCreateConsumerKey(mm, msg)
    ELSE IF mm.showConfirm THEN handleConfirmKey(mm, msg)
    ELSE handleMainKey(mm, msg)

\* The cases of Update's switch on the message type.
onWindowSize(mm, msg) ==
    Ret([mm EXCEPT !.width = msg.width, !.height = msg.height], <<>>)

\* Mutant of onErr: a failure also drops the detail that is shown.
onErr_clearsDetail(mm, msg) ==
    Ret([mm EXCEPT !.loading = FALSE, !.connectLoading = FALSE,
                   !.errMsg2 = <<"error">>, !.statusMsg = Empty,
                   !.detailContent = Empty], <<>>)

onErr(mm, msg) ==
    Ret([mm EXCEPT !.loading = FALSE, !.connectLoading = FALSE,
                   !.errMsg2 = <<"error">>, !.statusMsg = Empty], <<>>)

\* Mutant of onConnected: the focus jumps to the work list whenever a consumer
\* exists.
onConnected_alwaysJumps(mm, msg) ==
    LET m1 == [mm EXCEPT !.client = TRUE, !.consumers = msg.consumers,
                         !.consumerCursor = 0, !.consumerOffset = 0,
                         !.screen = screenMain, !.connectLoading = FALSE,
                         !.loading = FALSE,
                         !.statusMsg = <<"Connected", Len(msg.consumers)>>,
                         !.errMsg2 = Empty]
    IN IF Len(m1.consumers) > 0
       THEN Ret([m1 EXCEPT !.focused = panelManifests],
                <<loadManifests(m1.consumers[1].Name)>>)
       ELSE Ret(m1, <<>>)

onConnected(mm, msg) ==
    LET m1 == [mm EXCEPT !.client = TRUE, !.consumers = msg.consumers,
                         !.consumerCursor = 0, !.consumerOffset = 0,
                         !.screen = screenMain, !.connectLoading = FALSE,
                         !.loading = FALSE,
                         !.statusMsg = <<"Connected", Len(msg.consumers)>>,
                         !.errMsg2 = Empty]
    IN IF Len(m1.consumers) > 0
       THEN Ret(IF Len(m1.consumers) = 1
                THEN [m1 EXCEPT !.focused = panelManifests] ELSE m1,
                <<loadManifests(m1.consumers[1].Name)>>)
       ELSE Ret(m1, <<>>)

\* Mutant of onConsumersLoaded: the cursor stays where it was.
onConsumersLoaded_keepsCursor(mm, msg) ==
    Ret([mm EXCEPT !.consumers = msg.consumers, !.loading = FALSE,
                   !.statusMsg = <<"consumers", Len(msg.consumers)>>], <<>>)

onConsumersLoaded(mm, msg) ==
    Ret([mm EXCEPT !.consumers = msg.consumers, !.consumerCursor = 0,
                   !.consumerOffset = 0, !.loading = FALSE,
                   !.statusMsg = <<"consumers", Len(msg.consumers)>>], <<>>)

\* Mutant of onManifestsLoaded: the loading indicator is left as it is.
onManifestsLoaded_keepsLoading(mm, msg) ==
    LET m1 == [mm EXCEPT !.manifests = msg.manifests, !.manifestCursor = 0,
                         !.manifestOffset = 0]
    IN IF Len(m1.manifests) > 0
       THEN Ret(m1, <<loadDetail(m1.manifests[1], "user")>>)
       ELSE Ret(m1, <<>>)

onManifestsLoaded(mm, msg) ==
    LET m1 == [mm EXCEPT !.manifests = msg.manifests, !.manifestCursor = 0,
                         !.manifestOffset = 0, !.loading = FALSE]
    IN IF Len(m1.manifests) > 0
       THEN Ret(m1, <<loadDetail(m1.manifests[1], "user")>>)
       ELSE Ret(m1, <<>>)

\* Mutant of onDetailLoaded: a result for a record that is no longer the
\* selected one is discarded.
onDetailLoaded_dropsStale(mm, msg) ==
    IF msg.detail # selectedManifest(mm)
    THEN Ret([mm EXCEPT !.loading = FALSE], IF mm.watching THEN <<watchTick>> ELSE <<>>)
    ELSE LET m1 == [mm EXCEPT !.loading = FALSE,
                              !.detailFormatted = renderDetail(msg.detail),
                              !.detailJSON = msg.jsonData,
                              !.detailYAML = msg.yamlData,
                              !.detailRawJSON = msg.rawJSON,
                              !.detailRawYAML = msg.rawYAML]
             m2 == [m1 EXCEPT !.detailContent = activeDetailContent(m1)]
             m3 == IF m2.searchText # Empty THEN rebuildSearch(m2) ELSE m2
         IN IF m3.watching THEN Ret(m3, <<watchTick>>) ELSE Ret(m3, <<>>)

onDetailLoaded(mm, msg) ==
    LET m1 == [mm EXCEPT !.loading = FALSE,
                         !.detailFormatted = renderDetail(msg.detail),
                         !.detailJSON = msg.jsonData,
                         !.detailYAML = msg.yamlData,
                         !.detailRawJSON = msg.rawJSON,
                         !.detailRawYAML = msg.rawYAML]
        m2 == [m1 EXCEPT !.detailContent = activeDetailContent(m1)]
        m3 == IF m2.searchText # Empty THEN rebuildSearch(m2) ELSE m2
    IN IF rebuildSearchPanics(m2) THEN Panic(m2)
       ELSE IF m3.watching THEN Ret(m3, <<watchTick>>) ELSE Ret(m3, <<>>)

\* Mutant of onWatchTick: the tick handler schedules the next tick itself.
onWatchTick_reschedules(mm) ==
    IF mm.watching /\ mm.client
    THEN LET selected == selectedManifest(mm)
         IN IF selected # NoManifest
            THEN Ret(mm, <<loadDetail(selected, "tick"), watchTick>>)
            ELSE Ret(mm, <<watchTick>>)
    ELSE Ret(mm, <<>>)

onWatchTick(mm) ==
    IF mm.watching /\ mm.client
    THEN LET selected == selectedManifest(mm)
         IN IF selected # NoManifest
            THEN Ret(mm, <<loadDetail(selected, "tick")>>)
            ELSE Ret(mm, <<>>)
    ELSE Ret(mm, <<>>)

onConsumerCreated(mm, msg) ==
    Ret([mm EXCEPT !.loading = FALSE, !.showCreateConsumer = FALSE,
                   !.createInput.value = Empty,
                   !.statusMsg = <<"created", msg.name>>],
        <<reloadConsumers>>)

onConsumerDeleted(mm) ==
    Ret([mm EXCEPT !.loading = FALSE, !.showConfirm = FALSE,
                   !.statusMsg = <<"Consumer deleted">>,
                   !.manifests = <<>>, !.detailContent = Empty],
        <<reloadConsumers>>)

onManifestDeleted(mm) ==
    LET m1 == [mm EXCEPT !.loading = FALSE, !.showConfirm = FALSE,
                         !.statusMsg = <<"ManifestWork deleted">>,
                         !.detailContent = Empty]
    IN IF Len(m1.consumers) > 0
       THEN IF m1.consumerCursor >= Len(m1.consumers) THEN Panic(m1)
            ELSE Ret(m1, <<loadManifests(m1.consumers[m1.consumerCursor + 1].Name)>>)
       ELSE Ret(m1, <<>>)

onClipboard(mm, msg) ==
    IF msg.err
    THEN Ret([mm EXCEPT !.statusMsg = Empty, !.errMsg2 = <<"clipboard: error">>], <<>>)
    ELSE Ret([mm EXCEPT !.errMsg2 = Empty, !.statusMsg = <<"Copied to clipboard!">>], <<>>)

\* Step 2 of Update: the switch on the message type.
Handle(mm, msg) ==
    CASE msg.type = "windowSize" -> onWindowSize(mm, msg)
      [] msg.type = "err" -> onErr(mm, msg)
      [] msg.type = "connected" -> onConnected(mm, msg)
      [] msg.type = "consumersLoaded" -> onConsumersLoaded(mm, msg)
      [] msg.type = "manifestsLoaded" -> onManifestsLoaded(mm, msg)
      [] msg.type = "detailLoaded" -> onDetailLoaded(mm, msg)
      [] msg.type = "watchTick" -> onWatchTick(mm)
      [] msg.type = "consumerCreated" -> onConsumerCreated(mm, msg)
      [] msg.type = "consumerDeleted" -> onConsumerDeleted(mm)
      [] msg.type = "manifestDeleted" -> onManifestDeleted(mm)
      [] msg.type = "clipboard" -> onClipboard(mm, msg)
      [] msg.type = "mouse" -> handleMouse(mm, msg)
      [] msg.type = "key" -> RouteKey(mm, msg)
      [] OTHER -> Ret(mm, <<>>)

\* Step 1 panics: the query changed and the scan of rebuildSearch runs off a
\* line.
ForwardPanics(mm, msg) ==
    /\ mm.screen = screenMain
    /\ ~mm.showCreateConsumer /\ ~mm.filtering /\ mm.searching
    /\ LET si == InputUpdate(mm.searchInput, msg)
           m1 == [mm EXCEPT !.searchInput = si, !.searchText = si.value]
       IN m1.searchText # mm.searchText /\ rebuildSearchPanics(m1)

Update(mm, msg) ==
    IF ForwardPanics(mm, msg) THEN Panic(mm)
    ELSE Handle(Forward(mm, msg), msg)

\* ─── The detail viewport (bubbles/viewport) ────────────────────────────────
\* A viewport is the number of lines of its content, its height and YOffset,
\* the index of the first line it shows.
maxYOffset(vp) == IF vp.lines - vp.Height > 0 THEN vp.lines - vp.Height ELSE 0

SetYOffset(vp, n) ==
    [vp EXCEPT !.YOffset = IF n < 0 THEN 0
                           ELSE IF n > maxYOffset(vp) THEN maxYOffset(vp) ELSE n]

ScrollDown(vp, n) ==
    IF vp.YOffset >= maxYOffset(vp) \/ n = 0 THEN vp ELSE SetYOffset(vp, vp.YOffset + n)

ScrollUp(vp, n) ==
    IF vp.YOffset <= 0 \/ n = 0 THEN vp ELSE SetYOffset(vp, vp.YOffset - n)

GotoTop(vp) == [vp EXCEPT !.YOffset = 0]

\* SetContent: an offset beyond the last line of the new content goes to the
\* bottom.
SetContent(vp, content) ==
    LET v == [vp EXCEPT !.lines = Len(PlainLines(content))]
    IN IF v.YOffset > v.lines - 1 THEN SetYOffset(v, maxYOffset(v)) ELSE v

\* viewport.Model.Update: the scroll keys of the default key map and the
\* wheel, which scrolls by MouseWheelDelta = 3 lines.
viewportUpdate(vp, msg) ==
    IF msg.type = "key"
    THEN CASE msg.key \in {"down", "j"} -> ScrollDown(vp, 1)
           [] msg.key \in {"up", "k"} -> ScrollUp(vp, 1)
           [] msg.key = " " -> ScrollDown(vp, vp.Height)
           [] msg.key = "d" -> ScrollDown(vp, vp.Height \div 2)
           [] OTHER -> vp
    ELSE IF msg.type = "mouse" /\ msg.action = "press"
         THEN CASE msg.button = "wheelup" -> ScrollUp(vp, 3)
                [] msg.button = "wheeldown" -> ScrollDown(vp, 3)
                [] OTHER -> vp
    ELSE vp

\* scrollToMatch: the current match a quarter of the height below the top.
scrollToMatch(vp, mm) ==
    IF mm.searchCurrent >= Len(mm.searchMatches) THEN vp
    ELSE SetYOffset(vp, mm.searchMatches[mm.searchCurrent + 1].line - vp.Height \div 4)

\* The viewport after the Model mm has got new content or new highlights:
\* with a query rebuildSearch pushes the content and scrolls to the current
\* match, without one the content is pushed and the viewport goes to the top.
refreshViewport(vp, mm) ==
    IF mm.searchText # Empty
    THEN IF mm.searchMatches # <<>>
         THEN scrollToMatch(SetContent(vp, mm.detailContent), mm)
         ELSE SetContent(vp, mm.detailContent)
    ELSE GotoTop(SetContent(vp, mm.detailContent))

\* Step 1 of Update, seen from the viewport: a typed query is rebuilt, and
\* with the detail panel focused the message is handed to the viewport.
ForwardViewport(mm, vp, msg) ==
    IF mm.screen # screenMain \/ mm.showCreateConsumer \/ mm.filtering THEN vp
    ELSE IF mm.searching
         THEN LET m1 == Forward(mm, msg)
              IN IF m1.searchText = mm.searchText THEN vp
                 ELSE IF m1.searchText = Empty THEN SetContent(vp, m1.detailContent)
                 ELSE refreshViewport(vp, m1)
    ELSE IF mm.focused = panelDetail THEN viewportUpdate(vp, msg)
    ELSE vp

\* Step 2 of Update, seen from the viewport; m1 is the Model after step 1 and
\* m2 the Model Update returns.
HandleViewport(m1, m2, vp, msg) ==
    LET main == m1.screen = screenMain /\ ~m1.showCreateConsumer /\ ~m1.showConfirm
        leftW == Frac40(m1.width)
        consumerH == Frac40(m1.height - 1)
    IN CASE msg.type = "windowSize" ->
              SetContent([vp EXCEPT !.Height = msg.height - 2 - 4], m2.detailContent)
         [] msg.type = "detailLoaded" -> refreshViewport(vp, m2)
         [] msg.type \in {"consumerDeleted", "manifestDeleted"} -> SetContent(vp, Empty)
         [] msg.type = "mouse" /\ m1.screen = screenMain ->
              IF msg.button = "left"
              THEN IF msg.action = "press" /\ msg.x < leftW /\ msg.y < consumerH
                      /\ msg.y - 2 >= 0
                      /\ msg.y - 2 + m1.consumerOffset < Len(m1.consumers)
                   THEN SetContent(vp, Empty) ELSE vp
              ELSE IF msg.x < leftW THEN vp
              ELSE IF msg.button = "wheelup" THEN ScrollUp(vp, 3)
              ELSE IF msg.button = "wheeldown" THEN ScrollDown(vp, 3)
              ELSE vp
         [] msg.type = "key" /\ msg.key # "ctrl+c" /\ main ->
              CASE m1.focused = panelConsumers ->
                      IF msg.key = "enter" /\ Len(m1.consumers) > 0
                      THEN SetContent(vp, Empty) ELSE vp
                [] m1.focused = panelManifests ->
                      IF ~m1.filtering /\ msg.key = "v" THEN refreshViewport(vp, m2) ELSE vp
                [] OTHER ->
                      IF m1.searching
                      THEN CASE msg.key = "esc" -> SetContent(vp, m2.detailContent)
                             [] msg.key = "enter" /\ m1.searchMatches # <<>> ->
                                    scrollToMatch(SetContent(vp, m2.detailContent), m2)
                             [] OTHER -> vp
                      ELSE CASE msg.key \in {"tab", "shift+tab", "/", "w", "y", "r"} -> vp
                             [] msg.key \in {"n", "N"} ->
                                    IF m1.searchMatches # <<>>
                                    THEN scrollToMatch(SetContent(vp, m2.detailContent), m2)
                                    ELSE vp
                             [] msg.key = "v" -> refreshViewport(vp, m2)
                             [] OTHER -> viewportUpdate(vp, msg)
         [] OTHER -> vp

\* The viewport of the Model that Update(mm, msg) returns, vp being the
\* viewport of mm.
UpdateViewport(mm, vp, msg) ==
    IF Update(mm, msg).exit = "panic" THEN vp
    ELSE HandleViewport(Forward(mm, msg), Update(mm, msg).m,
                        ForwardViewport(mm, vp, msg), msg)

\* ─── The program: events, commands in flight, completions ──────────────────
VARIABLES
    m,          \* the Model
    inflight,   \* bag of commands and timers that are running
    status,     \* "running", "quit" (tea.Quit) or "panic"
    call,       \* a call of one of the string helpers, or the detail viewport
    wait        \* the one-shot wait command: its position and what it has done

vars == <<m, inflight, status, call, wait>>

\* No helper call and no wait command is running beside the dashboard.
NoCall == [fn |-> "none"]

NoWait == [pc |-> "none"]

Keys == SpecialKeys \cup Runes

MouseButtons == {"left", "wheelup", "wheeldown"}

RECURSIVE CmdBag(_)
CmdBag(cs) == IF cs = <<>> THEN EmptyBag ELSE SetToBag({Head(cs)}) (+) CmdBag(Tail(cs))

\* The completion messages a running command can send.
detailLoadedMsg(mw) ==
    [type |-> "detailLoaded", detail |-> mw,
     jsonData |-> Rendered("json", mw), yamlData |-> Rendered("yaml", mw),
     rawJSON |-> Rendered("rawjson", mw), rawYAML |-> Rendered("rawyaml", mw)]

errMsg == [type |-> "err"]

watchTickMsg == [type |-> "watchTick"]

Succeeds(c, nc, nm) ==
    CASE c.type = "connect" ->
            {[type |-> "connected", consumers |-> l] : l \in ConsumerLists(nc)}
      [] c.type = "reloadConsumers" ->
            {[type |-> "consumersLoaded", consumers |-> l] : l \in ConsumerLists(nc)}
      [] c.type = "loadManifests" ->
            {[type |-> "manifestsLoaded", manifests |-> l] :
                l \in ManifestLists(ConsumerOfName(c.consumerName), nm)}
      [] c.type = "loadDetail" -> {detailLoadedMsg(c.mw)}
      [] c.type = "createConsumer" -> {[type |-> "consumerCreated", name |-> c.name]}
      [] c.type = "deleteConsumer" -> {[type |-> "consumerDeleted"]}
      [] c.type = "deleteManifest" -> {[type |-> "manifestDeleted"]}
      [] c.type = "clipboard" -> {[type |-> "clipboard", err |-> e] : e \in BOOLEAN}
      [] OTHER -> {}

Fails(c) ==
    IF c.type \in {"connect", "reloadConsumers", "loadManifests", "loadDetail",
                   "createConsumer", "deleteConsumer", "deleteManifest"}
    THEN {errMsg} ELSE {}

\* No text input grows beyond its bound.
TextFits(old, new) ==
    /\ Len(new.filterInput.value) <= MaxText
            \/ Len(new.filterInput.value) <= Len(old.filterInput.value)
    /\ Len(new.searchInput.value) <= MaxText
            \/ Len(new.searchInput.value) <= Len(old.searchInput.value)
    /\ Len(new.createInput.value) <= MaxName
            \/ Len(new.createInput.value) <= Len(old.createInput.value)

\* One pass of the event loop: Update handles message e and the commands it
\* returns start running; done is the bag of commands that e completes.
Deliver(e, done) ==
    /\ status = "running"
    /\ \E r \in {Update(m, e)} :
       LET running == (inflight (-) done) (+) CmdBag(r.cmds)
       IN /\ TextFits(m, r.m)
          /\ BagCardinality(running) <= MaxInflight
          /\ m' = r.m
          /\ inflight' = running
          /\ status' = IF r.exit = "none" THEN "running" ELSE r.exit

\* The same pass in a scenario that leaves the viewport out of its state.
Step(e, done) ==
    /\ Deliver(e, done)
    /\ UNCHANGED <<call, wait>>

Init ==
    /\ m = New
    /\ inflight = EmptyBag
    /\ status = "running"
    /\ call = NoCall
    /\ wait = NoWait

\* A key press out of the set K.
KeyMsg(K) ==
    \E k \in K :
        /\ k \in SpecialKeys \cup Runes
        /\ Step([type |-> "key", key |-> k], EmptyBag)

\* The mouse messages: a left press on any row of the left column or on the
\* right column, a wheel step over the top or the bottom of the left column or
\* over the right column.
MouseMsgs ==
    {[type |-> "mouse", button |-> b, action |-> "press", x |-> x, y |-> y] :
        b \in MouseButtons, x \in {0, TermWidth - 1}, y \in 0..(TermHeight - 1)}

MouseMsg ==
    \E e \in MouseMsgs :
        /\ e.x # 0 => e.y = 0
        /\ e.button # "left" => e.y \in {0, TermHeight - 1}
        /\ Step(e, EmptyBag)

WindowSizeMsg ==
    /\ TermWidth > 0 /\ TermHeight > 0
    /\ Step([type |-> "windowSize", width |-> TermWidth, height |-> TermHeight], EmptyBag)

WatchTickMsg ==
    /\ BagIn(watchTick, inflight)
    /\ Step(watchTickMsg, SetToBag({watchTick}))

\* Command c completes with one of its success messages, the backend knowing
\* nc consumers and nm work records per consumer.
Completion(nc, nm) ==
    \E c \in BagToSet(inflight) : \E e \in Succeeds(c, nc, nm) : Step(e, SetToBag({c}))

Failure ==
    \E c \in BagToSet(inflight) : \E e \in Fails(c) : Step(e, SetToBag({c}))

\* ─── Messages Update can be handed in the current state ────────────────────
AllKeys == Keys \cup {"k", "j"}

KeyMsgs == {[type |-> "key", key |-> k] : k \in AllKeys}

UserMsgs ==
    KeyMsgs \cup MouseMsgs
        \cup {[type |-> "windowSize", width |-> TermWidth, height |-> TermHeight]}

\* The completion and timer messages of the commands in flight.
Arriving(nc, nm) ==
    UNION {Succeeds(c, nc, nm) \cup Fails(c) : c \in BagToSet(inflight)}
        \cup (IF BagIn(watchTick, inflight) THEN {watchTickMsg} ELSE {})

Has(cs, type) == \E i \in 1..Len(cs) : cs[i].type = type

RECURSIVE Copies(_)
Copies(S) ==
    IF S = {} THEN 0
    ELSE LET c == CHOOSE x \in S : TRUE IN CopiesIn(c, inflight) + Copies(S \ {c})

\* Detail fetches in flight that a watch tick issued.
TickFetches == Copies({c \in BagToSet(inflight) : c.type = "loadDetail" /\ c.by = "tick"})

\* Detail fetches in flight, whoever issued them.
DetailFetches == Copies({c \in BagToSet(inflight) : c.type = "loadDetail"})

\* ─── Watch mode: navigation and the watch toggle, one consumer ─────────────
WatchKeys == {"enter", "up", "down", "w"}
WatchConsumers == 1
WatchManifests == 2

NextWatch ==
    \/ KeyMsg(WatchKeys)
    \/ MouseMsg
    \/ WindowSizeMsg
    \/ WatchTickMsg
    \/ Completion(WatchConsumers, WatchManifests)
    \/ Failure

SpecWatch == Init /\ [][NextWatch]_vars

\* ─── Scenario: filtering and searching ─────────────────────────────────────
\* "/" opens the filter and the search, "R" is typed into them, Enter and Esc
\* close them; the mouse moves the focus and the selection meanwhile.
FilterKeys == {"enter", "esc", "/", "R"}
FilterConsumers == 1
FilterManifests == 2

NextFilter ==
    \/ KeyMsg(FilterKeys)
    \/ MouseMsg
    \/ WindowSizeMsg
    \/ Completion(FilterConsumers, FilterManifests)
    \/ Failure

SpecFilter == Init /\ [][NextFilter]_vars

\* ─── Scenario: deleting consumers and work records ─────────────────────────
DeleteKeys == {"enter", "esc", "d", "Y"}
DeleteConsumers == 1
DeleteManifests == 1

NextDelete ==
    \/ KeyMsg(DeleteKeys)
    \/ MouseMsg
    \/ WindowSizeMsg
    \/ Completion(DeleteConsumers, DeleteManifests)
    \/ Failure

SpecDelete == Init /\ [][NextDelete]_vars

\* ─── Scenario: creating consumers ──────────────────────────────────────────
CreateKeys == {"enter", "esc", "n", " "}
CreateConsumers == 1
CreateManifests == 1

NextCreate ==
    \/ KeyMsg(CreateKeys)
    \/ MouseMsg
    \/ WindowSizeMsg
    \/ Completion(CreateConsumers, CreateManifests)
    \/ Failure

SpecCreate == Init /\ [][NextCreate]_vars

\* ─── Scenario: connecting, and moving the focus ────────────────────────────
ConnectKeys == {"enter", "tab", "shift+tab"}
ConnectConsumers == 2
ConnectManifests == 1

NextConnect ==
    \/ KeyMsg(ConnectKeys)
    \/ MouseMsg
    \/ WindowSizeMsg
    \/ Completion(ConnectConsumers, ConnectManifests)
    \/ Failure

SpecConnect == Init /\ [][NextConnect]_vars

\* ─── Scenario: the search scan over fetched detail text ────────────────────
\* A query is typed into the search bar before the detail of the selected
\* record has arrived; the completion of the fetch runs rebuildSearch over the
\* text.  Queries and texts are drawn from bounded sets.
MaxLine == 3        \* bytes in a line of detail text
ScanConsumers == 1
ScanManifests == 1

ScanChars == {"j", "J", "k"}

ScanLines == UNION {[1..n -> ScanChars] : n \in 0..MaxLine}

ScanContents ==
    {<<l>> : l \in ScanLines}
        \cup {<<l1, l2>> : l1, l2 \in {l \in ScanLines : Len(l) <= 1}}

ScanQueries == {<<"j">>, <<"J", "j">>, <<"j", "j">>, <<"k">>, KelvinSign}

\* A record whose rendered detail consists of the given lines.
TextRecord(lines) ==
    [ID |-> <<"text", lines>>, Name |-> <<"j">>, ConsumerName |-> <<"name", 1>>]

InitScan ==
    /\ \E q \in ScanQueries, c \in ScanContents :
        /\ m = [New EXCEPT !.width = TermWidth, !.height = TermHeight,
                           !.screen = screenMain, !.connectFocusIdx = 1,
                           !.client = TRUE, !.focused = panelDetail,
                           !.consumers = <<ConsumerInfo(1)>>,
                           !.manifests = <<TextRecord(c)>>,
                           !.searching = TRUE,
                           !.searchInput = [value |-> q, focus |-> TRUE],
                           !.searchText = q,
                           !.statusMsg = <<"Connected", 1>>]
        /\ inflight = SetToBag({loadDetail(TextRecord(c), "user")})
    /\ status = "running"
    /\ call = NoCall
    /\ wait = NoWait

ScanKeys == {"enter", "esc"}

NextScan ==
    \/ KeyMsg(ScanKeys)
    \/ Completion(ScanConsumers, ScanManifests)
    \/ Failure

SpecScan == InitScan /\ [][NextScan]_vars

\* A decorated string: plain bytes (any byte but ESC) and complete CSI escape
\* sequences ESC '[' <params> <letter>.
RECURSIVE WellFormed(_)
WellFormed(s) ==
    IF s = <<>> THEN TRUE
    ELSE IF s[1] = ESC
         THEN /\ Len(s) >= 2 /\ s[2] = "["
              /\ LET j == SkipParams(s, 2)
                 IN /\ j < Len(s) /\ s[j + 1] \in Letters
                    /\ WellFormed(Slice(s, j + 1, Len(s)))
    ELSE WellFormed(Tail(s))

\* s ends in an escape sequence that lacks its final letter: decorated text
\* followed by ESC '[' <params>.
Unterminated(s) ==
    \E k \in 0..(Len(s) - 2) :
        /\ WellFormed(Slice(s, 0, k))
        /\ s[k + 1] = ESC /\ s[k + 2] = "["
        /\ SkipParams(s, k + 2) = Len(s)

\* ─── Scenario: buildCharMap on decorated strings ──────────────────────────
\* buildCharMap is called on one string out of a bounded set; the dashboard
\* stays as constructed.
MaxAnsi == 5        \* bytes in a decorated string

AnsiBytes == {ESC, "[", "3", "m", "a"}

AnsiStrings == UNION {[1..n -> AnsiBytes] : n \in 0..MaxAnsi}

DashboardIdle ==
    /\ m = New
    /\ inflight = EmptyBag
    /\ status = "running"
    /\ wait = NoWait

InitCharMap ==
    /\ DashboardIdle
    /\ \E a \in AnsiStrings :
        call = [fn |-> "buildCharMap", ansiStr |-> a, done |-> FALSE, charMap |-> <<>>]

CallBuildCharMap ==
    /\ call.fn = "buildCharMap" /\ ~call.done
    /\ call' = [call EXCEPT !.done = TRUE, !.charMap = buildCharMap(call.ansiStr)]
    /\ UNCHANGED <<m, inflight, status, wait>>

NextCharMap == CallBuildCharMap

SpecCharMap == InitCharMap /\ [][NextCharMap]_vars

\* ─── Scenario: injectBgHighlights on decorated lines ───────────────────────
\* injectBgHighlights is called on one decorated line with up to MaxRanges
\* ranges [start, end), 0 <= start <= end, that may overlap, be out of order
\* or lie beyond the end of the line; the k-th range is match k - 1.
MaxRanges == 2      \* ranges handed to one call

DecoratedLines == {a \in AnsiStrings : WellFormed(a)}

RangeOffsets == 0..(MaxAnsi - 2)

Ranges == {r \in RangeOffsets \X RangeOffsets : r[1] <= r[2]}

RangeLists == UNION {[1..n -> Ranges] : n \in 0..MaxRanges}

InitInject ==
    /\ DashboardIdle
    /\ \E line \in DecoratedLines, rs \in RangeLists, cur \in 0..(MaxRanges - 1) :
        call = [fn |-> "injectBgHighlights", coloredLine |-> line, ranges |-> rs,
                absIdxs |-> [k \in 1..Len(rs) |-> k - 1], currentIdx |-> cur,
                done |-> FALSE, result |-> <<>>]

CallInjectBgHighlights ==
    /\ call.fn = "injectBgHighlights" /\ ~call.done
    /\ call' = [call EXCEPT !.done = TRUE,
                            !.result = injectBgHighlights(call.coloredLine, call.ranges,
                                                          call.absIdxs, call.currentIdx)]
    /\ UNCHANGED <<m, inflight, status, wait>>

NextInject == CallInjectBgHighlights

SpecInject == InitInject /\ [][NextInject]_vars

\* ─── Scenario: view modes and the clipboard ────────────────────────────────
\* The dashboard is connected, the work list of the one consumer is loaded and
\* the detail of its first record is being fetched; the user cycles the view
\* mode, copies the detail and clicks.
ViewKeys == {"v", "y"}
ViewConsumers == 1
ViewManifests == 2

InitView ==
    /\ m = [New EXCEPT !.width = TermWidth, !.height = TermHeight,
                       !.screen = screenMain, !.connectFocusIdx = 1,
                       !.client = TRUE, !.focused = panelManifests,
                       !.consumers = <<ConsumerInfo(1)>>,
                       !.manifests = [i \in 1..ViewManifests |-> Summary(1, i)],
                       !.statusMsg = <<"Connected", 1>>]
    /\ inflight = SetToBag({loadDetail(Summary(1, 1), "user")})
    /\ status = "running"
    /\ call = NoCall
    /\ wait = NoWait

NextView ==
    \/ KeyMsg(ViewKeys)
    \/ MouseMsg
    \/ Completion(ViewConsumers, ViewManifests)
    \/ Failure

SpecView == InitView /\ [][NextView]_vars

\* ─── Scenario: clicks on the list panels ───────────────────────────────────
\* The dashboard is connected on a terminal of ClickWidth x ClickHeight, the
\* consumers are listed and the work list of the first is being loaded; the
\* user clicks on any row of the left column or on the right column, and
\* types a filter.
ClickWidth == 40
ClickHeight == 11
ClickConsumers == 1
ClickManifests == 3

ClickKeys == {"/", "R"}

ClickMsgs ==
    {[type |-> "mouse", button |-> "left", action |-> "press", x |-> x, y |-> y] :
        x \in {0, ClickWidth - 1}, y \in 0..(ClickHeight - 1)}

InitClick ==
    /\ m = [New EXCEPT !.width = ClickWidth, !.height = ClickHeight,
                       !.screen = screenMain, !.connectFocusIdx = 1,
                       !.client = TRUE,
                       !.focused = IF ClickConsumers = 1 THEN panelManifests
                                   ELSE panelConsumers,
                       !.consumers = [c \in 1..ClickConsumers |-> ConsumerInfo(c)],
                       !.statusMsg = <<"Connected", ClickConsumers>>]
    /\ inflight = SetToBag({loadManifests(ConsumerInfo(1).Name)})
    /\ status = "running"
    /\ call = NoCall
    /\ wait = NoWait

ClickMsg ==
    \E e \in ClickMsgs :
        /\ e.x # 0 => e.y = 0
        /\ Step(e, EmptyBag)

NextClick ==
    \/ KeyMsg(ClickKeys)
    \/ ClickMsg
    \/ Completion(ClickConsumers, ClickManifests)
    \/ Failure

SpecClick == InitClick /\ [][NextClick]_vars

\* ─── Scenario: cursors under reloads, filters, deletes and the mouse ───────
\* The dashboard is connected and the work list of the first consumer is being
\* loaded; the user moves the cursors with the wheel, selects a consumer with Enter
\* and reloads the consumer list.
CursorKeys == {"r", "enter"}
CursorConsumers == 2
CursorManifests == 2

InitCursor ==
    /\ m = [New EXCEPT !.width = TermWidth, !.height = TermHeight,
                       !.screen = screenMain, !.connectFocusIdx = 1,
                       !.client = TRUE,
                       !.focused = IF CursorConsumers = 1 THEN panelManifests
                                   ELSE panelConsumers,
                       !.consumers = [c \in 1..CursorConsumers |-> ConsumerInfo(c)],
                       !.statusMsg = <<"Connected", CursorConsumers>>]
    /\ inflight = SetToBag({loadManifests(ConsumerInfo(1).Name)})
    /\ status = "running"
    /\ call = NoCall
    /\ wait = NoWait

\* A wheel step over the consumers panel, the work-list panel or the detail.
WheelMsg ==
    \E e \in MouseMsgs :
        /\ e.button # "left"
        /\ e.x # 0 => e.y = 0
        /\ e.y \in {0, TermHeight - 1}
        /\ Step(e, EmptyBag)

NextCursor ==
    \/ KeyMsg(CursorKeys)
    \/ WheelMsg
    \/ Completion(CursorConsumers, CursorManifests)
    \/ Failure

SpecCursor == InitCursor /\ [][NextCursor]_vars

\* ─── Scenario: scrolling the detail ────────────────────────────────────────
\* The dashboard shows one record whose detail text is ScrollLines lines long
\* and is being fetched, the detail panel has the focus; the user presses
\* scroll keys, moves the focus, turns the wheel and reloads.
ScrollLines == 10
ScrollConsumers == 1
ScrollManifests == 1

ScrollKeys == {"down", "up", "tab", "r"}

LongText == [i \in 1..ScrollLines |-> <<"j">>]

InitScroll ==
    /\ m = [New EXCEPT !.width = TermWidth, !.height = TermHeight,
                       !.screen = screenMain, !.connectFocusIdx = 1,
                       !.client = TRUE, !.focused = panelDetail,
                       !.consumers = <<ConsumerInfo(1)>>,
                       !.manifests = <<TextRecord(LongText)>>,
                       !.statusMsg = <<"Connected", 1>>]
    /\ inflight = SetToBag({loadDetail(TextRecord(LongText), "user")})
    /\ status = "running"
    /\ call = [fn |-> "viewport",
               viewport |-> [lines |-> 1, Height |-> TermHeight - 2 - 4, YOffset |-> 0]]
    /\ wait = NoWait

\* One pass of the event loop, the viewport followed.
ScrollStep(e, done) ==
    /\ Deliver(e, done)
    /\ call' = [call EXCEPT !.viewport = UpdateViewport(m, call.viewport, e)]
    /\ UNCHANGED wait

ScrollKeyMsg == \E k \in ScrollKeys : ScrollStep([type |-> "key", key |-> k], EmptyBag)

ScrollWheelMsg ==
    \E e \in MouseMsgs :
        /\ e.button # "left"
        /\ e.x # 0 => e.y = 0
        /\ e.y \in {0, TermHeight - 1}
        /\ ScrollStep(e, EmptyBag)

ScrollCompletion ==
    \E c \in BagToSet(inflight) :
        \E e \in Succeeds(c, ScrollConsumers, ScrollManifests) \cup Fails(c) :
            ScrollStep(e, SetToBag({c}))

NextScroll ==
    \/ ScrollKeyMsg
    \/ ScrollWheelMsg
    \/ ScrollCompletion

SpecScroll == InitScroll /\ [][NextScroll]_vars

\* ─── The one-shot wait command (cmd/wait.go) ───────────────────────────────
\* Time is counted in seconds.  An error is a record; fmt.Errorf with %w wraps
\* its cause, fmt.Errorf without %w is a message alone.
DefaultWaitTimeout == 300       \* five minutes
DefaultPollInterval == 1

ErrNotFound == [kind |-> "NotFound"]
ErrTransport == [kind |-> "Transport"]
ErrTimeout == [kind |-> "Timeout"]
ErrConfig == [kind |-> "Config"]
NoError == [kind |-> "nil"]

Wrapped(msg, cause) == [kind |-> "Wrapped", msg |-> msg, cause |-> cause]
Message(msg) == [kind |-> "Message", msg |-> msg]

\* runWaitCommand returns err: the deferred cancel and client.Close run.
WaitReturn(w, err) ==
    [w EXCEPT !.pc = "done", !.err = err,
              !.calls = IF w.pc = "newClient" THEN @ ELSE Append(@, "Close")]

\* maestro.NewHTTPClient.
WaitNewClient ==
    /\ wait.pc = "newClient"
    /\ \E err \in {NoError, ErrConfig} :
        wait' = IF err # NoError
                THEN WaitReturn([wait EXCEPT !.calls = Append(@, "NewHTTPClient")],
                                Wrapped("failed to create Maestro client", err))
                ELSE [wait EXCEPT !.pc = "validate",
                                  !.calls = Append(@, "NewHTTPClient")]
    /\ UNCHANGED <<m, inflight, status, call>>

\* client.ValidateConsumer: its error is returned as it is.
WaitValidateConsumer ==
    /\ wait.pc = "validate"
    /\ \E err \in {NoError, ErrNotFound, ErrTransport} :
        LET w == [wait EXCEPT !.calls = Append(@, "ValidateConsumer"),
                              !.validated = err]
        IN wait' = IF err # NoError THEN WaitReturn(w, err)
                   ELSE [w EXCEPT !.pc = "exists"]
    /\ UNCHANGED <<m, inflight, status, call>>

\* Mutant of WaitGetManifestWork: the result of the existence check is not
\* looked at.
WaitGetManifestWork_ignoresError ==
    /\ wait.pc = "exists"
    /\ \E err \in {NoError, ErrNotFound, ErrTransport} :
        wait' = [wait EXCEPT !.calls = Append(@, "GetManifestWorkByNameHTTP"),
                             !.exists = err, !.pc = "deadline"]
    /\ UNCHANGED <<m, inflight, status, call>>

\* client.GetManifestWorkByNameHTTP: the existence check.
WaitGetManifestWork ==
    /\ wait.pc = "exists"
    /\ \E err \in {NoError, ErrNotFound, ErrTransport} :
        LET w == [wait EXCEPT !.calls = Append(@, "GetManifestWorkByNameHTTP"),
                              !.exists = err]
        IN wait' = IF err = NoError THEN [w EXCEPT !.pc = "deadline"]
                   ELSE IF err = ErrNotFound
                        THEN WaitReturn(w, Message("ManifestWork not found in consumer"))
                   ELSE WaitReturn(w, Wrapped("failed to check ManifestWork existence", err))
    /\ UNCHANGED <<m, inflight, status, call>>

\* Mutant of waitTimeout: the --timeout flag is not read.
waitTimeout_ignoresFlag(flagTimeout) == DefaultWaitTimeout

\* The timeout runWaitCommand waits under: the flag, five minutes without it.
waitTimeout(flagTimeout) == IF flagTimeout = 0 THEN DefaultWaitTimeout ELSE flagTimeout

\* context.WithTimeout, the results callback, and the call of
\* client.WaitForCondition with the default poll interval.
WaitStart ==
    /\ wait.pc = "deadline"
    /\ wait' = [wait EXCEPT !.pc = "polling",
                            !.deadline = waitTimeout(wait.timeout),
                            !.callback = wait.resultsPath,
                            !.interval = DefaultPollInterval,
                            !.calls = Append(@, "WaitForCondition")]
    /\ UNCHANGED <<m, inflight, status, call>>

\* WaitForCondition, one poll: the record is fetched and the condition
\* evaluated, the callback is invoked; the call returns when the condition is
\* met or the fetch fails, and sleeps one poll interval otherwise.
WaitPoll ==
    /\ wait.pc = "polling"
    /\ wait.elapsed < wait.deadline
    /\ \E outcome \in {"unmet", "met", "notFound", "transport"} :
        LET w == [wait EXCEPT !.outcomes = Append(@, outcome),
                              !.callbacks = IF wait.callback /\ outcome \in {"unmet", "met"}
                                            THEN @ + 1 ELSE @]
        IN wait' =
            CASE outcome = "met" -> WaitReturn(w, NoError)
              [] outcome = "notFound" ->
                    WaitReturn(w, Wrapped("error waiting for condition", ErrNotFound))
              [] outcome = "transport" ->
                    WaitReturn(w, Wrapped("error waiting for condition", ErrTransport))
              [] OTHER -> [w EXCEPT !.elapsed = @ + wait.interval]
    /\ UNCHANGED <<m, inflight, status, call>>

\* WaitForCondition: the deadline of the context has passed.
WaitDeadlineExceeded ==
    /\ wait.pc = "polling"
    /\ wait.elapsed >= wait.deadline
    /\ wait' = WaitReturn(wait, Wrapped("error waiting for condition", ErrTimeout))
    /\ UNCHANGED <<m, inflight, status, call>>

\* ─── Scenario: one run of the wait command ─────────────────────────────────
MaxTimeout == 3     \* the largest --timeout flag, in seconds; 0 is no flag

InitWait ==
    /\ m = New
    /\ inflight = EmptyBag
    /\ status = "running"
    /\ call = NoCall
    /\ \E t \in 0..MaxTimeout, rp \in BOOLEAN :
        wait = [pc |-> "newClient", timeout |-> t, resultsPath |-> rp,
                validated |-> NoError, exists |-> NoError,
                deadline |-> 0, interval |-> 0, callback |-> FALSE,
                elapsed |-> 0, outcomes |-> <<>>, callbacks |-> 0,
                calls |-> <<>>, err |-> NoError]

NextWait ==
    \/ WaitNewClient
    \/ WaitValidateConsumer
    \/ WaitGetManifestWork
    \/ WaitStart
    \/ WaitPoll
    \/ WaitDeadlineExceeded

SpecWait == InitWait /\ [][NextWait]_vars

\* Timers fire and commands complete, each of them eventually.
Resolve(c, nc, nm) ==
    /\ BagIn(c, inflight)
    /\ \E e \in Succeeds(c, nc, nm) \cup Fails(c) : Step(e, SetToBag({c}))

WatchCommands ==
    {connectCmd, reloadConsumers}
        \cup {loadManifests(ConsumerInfo(c).Name) : c \in 1..WatchConsumers}
        \cup {loadDetail(Summary(c, i), by) :
                c \in 1..WatchConsumers, i \in 1..WatchManifests, by \in {"user", "tick"}}

FairSpecWatch ==
    /\ SpecWatch
    /\ WF_vars(WatchTickMsg)
    /\ \A c \in WatchCommands : WF_vars(Resolve(c, WatchConsumers, WatchManifests))

\* ─── Capture modes ─────────────────────────────────────────────────────────
CaptureModes(mm) ==
    {f \in {"filtering", "searching", "showCreateConsumer", "showConfirm"} : mm[f]}

FetchCommands == {"reloadConsumers", "loadManifests", "loadDetail", "clipboard"}
DeleteCommands == {"deleteConsumer", "deleteManifest"}

InFlight(types) == \E c \in BagToSet(inflight) : c.type \in types

\* C1 (as claimed): at most one capture mode is active: at most one of
\* filtering, searching, showCreateConsumer and showConfirm is true.
C1_AtMostOneCaptureMode == Cardinality(CaptureModes(m)) <= 1

\* C2 (as claimed): while a capture mode is active, a key other than Ctrl+C is
\* handled by that mode only: it moves no list cursor, toggles neither watch
\* nor the view mode, opens no second mode, and issues no fetch or copy
\* command; a delete command comes from the confirmation alone and a create
\* command from the create modal alone.
C2_CaptureModeOwnsKeyboard ==
    \A e \in KeyMsgs :
        (e.key # "ctrl+c" /\ m.screen = screenMain /\ CaptureModes(m) # {}) =>
            LET r == Update(m, e)
            IN /\ r.exit = "none"
               /\ r.m.consumerCursor = m.consumerCursor
               /\ ~m.filtering => r.m.manifestCursor = m.manifestCursor
               /\ r.m.watching = m.watching
               /\ r.m.detailViewMode = m.detailViewMode
               /\ r.m.focused = m.focused
               /\ CaptureModes(r.m) \subseteq CaptureModes(m)
               /\ \A i \in 1..Len(r.cmds) :
                    /\ r.cmds[i].type \notin FetchCommands
                    /\ r.cmds[i].type \in DeleteCommands => CaptureModes(m) = {"showConfirm"}
                    /\ r.cmds[i].type = "createConsumer" =>
                            CaptureModes(m) = {"showCreateConsumer"}

\* C3 (as claimed): watch fetches never overlap: while watch is on, at most one
\* watch timer is pending or one watch-driven detail fetch is in flight.
C3_WatchNeverOverlaps ==
    m.watching => CopiesIn(watchTick, inflight) + TickFetches <= 1

\* C4: a watch tick is scheduled only when watch is toggled on and when a
\* detail completion is applied while watch is on; a watch tick never schedules
\* the next tick itself, and issues no fetch while watch is off; a detail
\* completion that arrives after watch was toggled off is still applied and
\* schedules no tick.
C4_TickScheduledOnlyByToggleAndCompletion ==
    \A e \in UserMsgs \cup Arriving(WatchConsumers, WatchManifests) :
        LET r == Update(m, e)
        IN /\ Has(r.cmds, "watchTick") =>
                \/ e.type = "key" /\ e.key = "w" /\ ~m.watching /\ r.m.watching
                \/ e.type = "detailLoaded" /\ m.watching
           /\ e.type = "watchTick" =>
                /\ ~Has(r.cmds, "watchTick")
                /\ ~m.watching => r.cmds = <<>>
           /\ e.type = "detailLoaded" =>
                /\ r.m.detailFormatted = renderDetail(e.detail)
                /\ ~m.watching => r.cmds = <<>>
                /\ m.watching => r.cmds = <<watchTick>>

\* C4 witness: watch was toggled off while the fetch of a tick is in flight.
C4_Witness == ~m.watching /\ TickFetches > 0 /\ ~BagIn(watchTick, inflight)

\* C5 (as claimed): while watch mode stays on, a watch tick is handled again
\* and again.
C5_WatchFiresRepeatedly ==
    <>[](m.watching /\ status = "running") => []<><<WatchTickMsg>>_vars

\* C6: every detail completion becomes the current detail, whatever record is
\* selected: the formatted, structured and mapping strings are replaced by
\* those of the completed fetch and the shown content is taken from them.
C6_EveryDetailCompletionApplied ==
    \A e \in Arriving(WatchConsumers, WatchManifests) :
        e.type = "detailLoaded" =>
            LET r == Update(m, e)
            IN /\ r.m.detailFormatted = renderDetail(e.detail)
               /\ r.m.detailJSON = e.jsonData
               /\ r.m.detailYAML = e.yamlData
               /\ r.m.detailContent = activeDetailContent(r.m)
               /\ r.m.detailContent # Empty

\* C6 witness: nothing is in flight and the panel shows a record other than the
\* selected one (its fetch completed after the fetch of the selected record).
C6_Witness ==
    /\ inflight = EmptyBag
    /\ selectedManifest(m) # NoManifest
    /\ m.detailContent # Empty
    /\ m.detailContent # renderDetail(selectedManifest(m))

\* C7 (as claimed): every user event that makes a different work-list entry
\* the selected one issues a detail fetch for exactly that entry and leaves
\* the shown detail as it was.
C7_SelectionChangeFetchesDetail ==
    \A e \in UserMsgs :
        LET r == Update(m, e)
            selected == selectedManifest(r.m)
        IN (selected # NoManifest /\ selected # selectedManifest(m)) =>
                /\ r.cmds = <<loadDetail(selected, "user")>>
                /\ r.m.detailContent = m.detailContent

\* C8: a delete command is issued only by y or Y pressed while the delete
\* confirmation is open (and owns the keyboard); no other key, mouse event,
\* timer or completion issues one.  The error completion of a delete command
\* leaves the consumer list and the work list as they were and sets the error
\* message.
C8_DeleteOnlyOnConfirmation ==
    \A e \in UserMsgs \cup Arriving(DeleteConsumers, DeleteManifests) :
        LET r == Update(m, e)
        IN /\ (\E i \in 1..Len(r.cmds) : r.cmds[i].type \in DeleteCommands) =>
                /\ e.type = "key" /\ e.key \in {"y", "Y"}
                /\ m.showConfirm /\ ~m.showCreateConsumer
                /\ r.cmds \in {<<deleteConsumerCmd(m.confirmID)>>,
                               <<deleteManifestCmd(m.confirmID)>>}
           /\ (e.type = "err" /\ InFlight(DeleteCommands)) =>
                /\ r.m.consumers = m.consumers
                /\ r.m.manifests = m.manifests
                /\ r.m.errMsg2 # Empty
                /\ r.cmds = <<>>

\* C8 witness: the deletion of a work record was confirmed, its command is
\* running, and the record is still in the work list.
C8_Witness ==
    /\ \E c \in BagToSet(inflight) :
            /\ c.type = "deleteManifest"
            /\ \E i \in 1..Len(m.manifests) : m.manifests[i].ID = c.id
    /\ ~m.showConfirm

\* C9 (as claimed): the successful completion of a create-consumer,
\* delete-consumer or delete-work command closes the action's modal, sets a
\* status message and issues a reload of the affected list: the consumer list
\* after a consumer was created or deleted, the work list after a work record
\* was deleted.
C9_SuccessClosesModalAndReloads ==
    \A e \in Arriving(DeleteConsumers, DeleteManifests) :
        LET r == Update(m, e)
        IN /\ e.type = "consumerCreated" =>
                /\ ~r.m.showCreateConsumer /\ r.m.statusMsg # Empty
                /\ r.cmds = <<reloadConsumers>>
           /\ e.type = "consumerDeleted" =>
                /\ ~r.m.showConfirm /\ r.m.statusMsg # Empty
                /\ r.cmds = <<reloadConsumers>>
           /\ e.type = "manifestDeleted" =>
                /\ ~r.m.showConfirm /\ r.m.statusMsg # Empty
                /\ Len(r.cmds) = 1 /\ r.cmds[1].type = "loadManifests"

\* C10 (as claimed): after the error completion of a create-consumer command
\* the create modal is closed, after the error completion of a delete command
\* the confirmation is closed, and in both cases the error message is set and
\* the status message cleared.
C10_FailureClosesModal ==
    \A e \in Arriving(CreateConsumers, CreateManifests) :
        e.type = "err" =>
            LET r == Update(m, e)
            IN /\ InFlight({"createConsumer"}) =>
                    /\ ~r.m.showCreateConsumer
                    /\ r.m.errMsg2 # Empty /\ r.m.statusMsg = Empty
               /\ InFlight(DeleteCommands) =>
                    /\ ~r.m.showConfirm
                    /\ r.m.errMsg2 # Empty /\ r.m.statusMsg = Empty

\* C11: the completion of a failed command never stops the loop, issues no
\* command and changes only the loading indicators and the status/error slot:
\* loading and connectLoading become false, the error text is stored, the
\* status message is cleared, and every other field of the Model is as before.
C11_ErrorTouchesOnlyStatusSlot ==
    \A e \in Arriving(FilterConsumers, FilterManifests) :
        e.type = "err" =>
            LET r == Update(m, e)
            IN /\ r.exit = "none"
               /\ r.cmds = <<>>
               /\ r.m.errMsg2 # Empty
               /\ r.m = [m EXCEPT !.loading = FALSE, !.connectLoading = FALSE,
                                  !.errMsg2 = r.m.errMsg2, !.statusMsg = Empty]

\* C11 witness: a fetch that can fail is running while a filter is being
\* typed, the filter text is set and a detail is shown.
C11_Witness ==
    /\ InFlight({"loadDetail"})
    /\ m.filtering /\ m.filterText # Empty
    /\ Len(filteredManifests(m)) < Len(m.manifests)
    /\ m.detailContent # Empty

\* C12: in the create-consumer modal, Enter with an empty or whitespace-only
\* name issues no command and changes nothing; a create command is issued by
\* Enter in the modal alone, and its name is the typed text without leading
\* and trailing blanks, which is not empty.
C12_BlankNameIssuesNothing ==
    \A e \in UserMsgs \cup Arriving(CreateConsumers, CreateManifests) :
        LET r == Update(m, e)
            typed == m.createInput.value
        IN /\ ( /\ e.type = "key" /\ e.key = "enter"
                /\ m.screen = screenMain /\ m.showCreateConsumer
                /\ \A i \in 1..Len(typed) : typed[i] = " " ) =>
                    r.m = m /\ r.cmds = <<>> /\ r.exit = "none"
           /\ Has(r.cmds, "createConsumer") =>
                /\ e.type = "key" /\ e.key = "enter" /\ m.showCreateConsumer
                /\ Len(r.cmds) = 1
                /\ LET name == r.cmds[1].name
                   IN /\ name # Empty
                      /\ Head(name) # " " /\ name[Len(name)] # " "
                      /\ \E a, b \in 0..Len(typed) :
                            /\ a + Len(name) + b = Len(typed)
                            /\ SubSeq(typed, a + 1, a + Len(name)) = name
                            /\ \A i \in 1..a : typed[i] = " "
                            /\ \A i \in (a + Len(name) + 1)..Len(typed) : typed[i] = " "

\* C12 witness: the modal is open on a whitespace-only name while a create
\* command issued earlier is still running.
C12_Witness ==
    /\ m.showCreateConsumer
    /\ m.createInput.value # Empty
    /\ \A i \in 1..Len(m.createInput.value) : m.createInput.value[i] = " "
    /\ InFlight({"createConsumer"})

\* C13: a successful connect completion makes the screen Main and stores the
\* returned consumer list with the consumer cursor at 0; with no consumer no
\* work list is loaded, with one or more the work list of the first consumer
\* is loaded at once; with exactly one consumer the focus moves to the
\* work-list panel, otherwise the focus stays where it was.
C13_ConnectLandsOnMain ==
    \A e \in Arriving(ConnectConsumers, ConnectManifests) :
        e.type = "connected" =>
            LET r == Update(m, e)
                n == Len(e.consumers)
            IN /\ r.exit = "none"
               /\ r.m.screen = screenMain
               /\ r.m.consumers = e.consumers
               /\ r.m.consumerCursor = 0
               /\ n = 0 => r.cmds = <<>>
               /\ n >= 1 => r.cmds = <<loadManifests(e.consumers[1].Name)>>
               /\ n = 1 => r.m.focused = panelManifests
               /\ n # 1 => r.m.focused = m.focused

\* C13 witness: a connect command is still running on the main screen, with
\* the focus moved to the detail panel.
C13_Witness ==
    /\ m.screen = screenMain
    /\ m.focused = panelDetail
    /\ Len(m.consumers) = 2
    /\ InFlight({"connect"})

\* C14: the session starts on the Connect screen; the screen changes only
\* when a successful connect completion is handled, and then to Main; a
\* failed connect leaves it on Connect with the error stored and
\* connectLoading cleared; once the screen is Main no event changes it.
C14_MainIsTerminal ==
    /\ New.screen = screenConnect
    /\ \A e \in UserMsgs \cup Arriving(ConnectConsumers, ConnectManifests) :
        LET r == Update(m, e)
        IN /\ m.screen = screenMain => r.m.screen = screenMain
           /\ r.m.screen # m.screen => e.type = "connected"
           /\ e.type = "connected" => r.m.screen = screenMain
           /\ (e.type = "err" /\ m.screen = screenConnect) =>
                /\ r.m.screen = screenConnect
                /\ r.m.errMsg2 # Empty
                /\ ~r.m.connectLoading

\* C14 witness: a connect attempt failed and the session is still on the
\* Connect screen.
C14_Witness ==
    /\ m.screen = screenConnect
    /\ m.errMsg2 # Empty
    /\ ~m.connectLoading
    /\ inflight = EmptyBag

\* C15 (as claimed): on the main screen Tab moves the focus Consumers ->
\* Work list -> Detail -> Consumers and Shift+Tab moves it the other way, in
\* every state of the main screen, a capture mode being active or not.
C15_FocusCyclesInEveryState ==
    \A e \in KeyMsgs :
        (m.screen = screenMain /\ e.key \in {"tab", "shift+tab"}) =>
            LET r == Update(m, e)
            IN r.m.focused = IF e.key = "tab" THEN (m.focused + 1) % 3
                                              ELSE (m.focused + 2) % 3

\* C16 (as claimed): Enter pressed while a filter or a search query is being
\* typed (the mode's own panel focused, no other mode active) commits it: the
\* mode ends, the typed text is kept, and the keys that follow are routed to
\* the panel's normal navigation.
C16_EnterCommits ==
    LET e == [type |-> "key", key |-> "enter"]
        r == Update(m, e)
    IN /\ (CaptureModes(m) = {"filtering"} /\ m.focused = panelManifests) =>
            /\ ~r.m.filtering
            /\ r.m.filterText = m.filterText
            /\ r.cmds = <<>>
       /\ (CaptureModes(m) = {"searching"} /\ m.focused = panelDetail) =>
            /\ ~r.m.searching
            /\ r.m.searchText = m.searchText
            /\ r.cmds = <<>>

C18_EscClearsFilter ==
    ( /\ m.screen = screenMain /\ m.focused = panelManifests
      /\ ~m.showCreateConsumer /\ ~m.showConfirm
      /\ m.filterText # Empty ) =>
        LET r == Update(m, [type |-> "key", key |-> "esc"])
        IN /\ r.m.filterText = Empty
           /\ filteredManifests(r.m) = r.m.manifests
           /\ r.m.manifestCursor = 0 /\ r.m.manifestOffset = 0

\* C19 (as claimed): in every state with a non-empty search query the match
\* list is the match set of that query over the detail content that is shown:
\* every match lies inside an existing line of detailContent, also after the
\* content was cleared by selecting a consumer or by a successful delete.
C19_MatchesFollowContent ==
    m.searchText # Empty =>
        LET lines == PlainLines(m.detailContent)
        IN /\ m.searchMatches = AllMatches(lines, ToLower(m.searchText),
                                           Len(m.searchText), 0)
           /\ \A k \in 1..Len(m.searchMatches) :
                LET sm == m.searchMatches[k]
                IN /\ sm.line < Len(lines)
                   /\ sm.start >= 0 /\ sm.start < sm.end
                   /\ sm.end <= Len(lines[sm.line + 1])

\* C20 (as claimed): for a non-empty query and any content rebuildSearch
\* terminates and reports the case-insensitive occurrences found by a
\* left-to-right non-overlapping scan of each line: the matches are in
\* document order, none reaches beyond its line, no two on a line overlap,
\* each has the length of the query and covers an occurrence, and every
\* occurrence is reported or overlaps a reported one.
C20_ScanReportsOccurrences ==
    \A e \in Arriving(ScanConsumers, ScanManifests) :
        (e.type = "detailLoaded" /\ m.searchText # Empty) =>
            LET r == Update(m, e)
                found == r.m.searchMatches
                lines == PlainLines(r.m.detailContent)
                query == ToLower(m.searchText)
                Occurs(i, p) ==
                    /\ p + Len(query) <= Len(ToLower(lines[i]))
                    /\ SubSeq(ToLower(lines[i]), p + 1, p + Len(query)) = query
            IN /\ r.exit = "none"
               /\ \A k \in 1..Len(found) :
                    /\ found[k].line >= 0 /\ found[k].line < Len(lines)
                    /\ found[k].start >= 0
                    /\ found[k].end <= Len(lines[found[k].line + 1])
                    /\ found[k].end - found[k].start = Len(m.searchText)
                    /\ Occurs(found[k].line + 1, found[k].start)
               /\ \A k \in 1..(Len(found) - 1) :
                    \/ found[k].line < found[k + 1].line
                    \/ /\ found[k].line = found[k + 1].line
                       /\ found[k].end <= found[k + 1].start
               /\ \A i \in 1..Len(lines) : \A p \in 0..Len(lines[i]) :
                    Occurs(i, p) =>
                        \E k \in 1..Len(found) :
                            /\ found[k].line = i - 1
                            /\ found[k].start <= p /\ p < found[k].end

\* ─── C21 ───────────────────────────────────────────────────────────────────
\* The number of places the byte string code occurs at in the lines.
Occurrences(lines, code) ==
    Cardinality(UNION {{<<i, p>> : p \in {q \in 0..Len(lines[i]) :
                                            /\ q + Len(code) <= Len(lines[i])
                                            /\ Slice(lines[i], q, q + Len(code)) = code}} :
                       i \in 1..Len(lines)})

\* C21: whenever the match list is non-empty, searchCurrent indexes one of the
\* matches, and the content applySearchHighlights pushes into the viewport has
\* exactly one match wrapped in the current-match background and every other
\* match wrapped in the other-match background.
C21_ExactlyOneCurrentMatch ==
    Len(m.searchMatches) > 0 =>
        /\ 0 <= m.searchCurrent /\ m.searchCurrent < Len(m.searchMatches)
        /\ LET shown == applySearchHighlights(m, Lines(m.detailContent))
           IN /\ Occurrences(shown, BgCurrent) = 1
              /\ Occurrences(shown, BgOther) = Len(m.searchMatches) - 1
              /\ Occurrences(shown, BgReset) = Len(m.searchMatches)

\* ─── C22 ───────────────────────────────────────────────────────────────────
\* n consecutive calls of nextSearchMatch.
RECURSIVE NextTimes(_, _)
NextTimes(mm, n) == IF n = 0 THEN mm ELSE NextTimes(nextSearchMatch(mm), n - 1)

\* n consecutive presses of Enter.
RECURSIVE EnterTimes(_, _)
EnterTimes(mm, n) ==
    IF n = 0 THEN mm
    ELSE EnterTimes(Update(mm, [type |-> "key", key |-> "enter"]).m, n - 1)

\* C22: match navigation wraps modulo the match count.  With N > 0 matches, N
\* steps to the next match (and no fewer) lead back to the starting match, one
\* step to the previous match from the first lands on the last, previous undoes
\* next and next undoes previous, and a step changes nothing but the current
\* match; with no match both steps change nothing.  Enter in the search bar is
\* the step to the next match.
C22_NavigationWraps ==
    LET N == Len(m.searchMatches)
    IN /\ N = 0 => nextSearchMatch(m) = m /\ prevSearchMatch(m) = m
       /\ N > 0 =>
            /\ NextTimes(m, N) = m
            /\ \A k \in 1..(N - 1) : NextTimes(m, k) # m
            /\ prevSearchMatch(nextSearchMatch(m)) = m
            /\ nextSearchMatch(prevSearchMatch(m)) = m
            /\ m.searchCurrent = 0 => prevSearchMatch(m).searchCurrent = N - 1
            /\ [nextSearchMatch(m) EXCEPT !.searchCurrent = m.searchCurrent] = m
            /\ [prevSearchMatch(m) EXCEPT !.searchCurrent = m.searchCurrent] = m
       /\ (status = "running" /\ CaptureModes(m) = {"searching"}
             /\ m.focused = panelDetail) =>
            /\ Update(m, [type |-> "key", key |-> "enter"]).m = nextSearchMatch(m)
            /\ N > 0 => EnterTimes(m, N) = m

\* Three matches, the last of them current: the next step wraps to the first.
C22_Witness ==
    /\ Len(m.searchMatches) = 3
    /\ m.searchCurrent = 2
    /\ m.searching

\* ─── C23 ───────────────────────────────────────────────────────────────────
\* The key v reaches cycleDetailViewMode: the work list or the detail panel is
\* focused and handles its navigation keys.
CyclesOn(mm) ==
    /\ mm.screen = screenMain
    /\ ~mm.showCreateConsumer /\ ~mm.showConfirm
    /\ \/ mm.focused = panelManifests /\ ~mm.filtering
       \/ mm.focused = panelDetail /\ ~mm.searching

\* C23 (as claimed): a view-mode cycle step moves Formatted -> JSON -> YAML ->
\* Formatted, issues no command, shows one of the cached strings and, with a
\* query active, leaves the matches of the query over the new content; three
\* steps in a row restore the mode and the detail content they started from.
C23_ThreeCyclesRestore ==
    (status = "running" /\ CyclesOn(m)) =>
        LET v == [type |-> "key", key |-> "v"]
            r1 == Update(m, v)
            r2 == Update(r1.m, v)
            r3 == Update(r2.m, v)
        IN /\ r1.exit = "none" /\ r1.cmds = <<>>
           /\ r1.m.detailViewMode = next(m.detailViewMode)
           /\ r1.m.detailContent \in {m.detailFormatted, m.detailJSON, m.detailYAML}
           /\ r1.m.searchText # Empty =>
                r1.m.searchMatches =
                    AllMatches(PlainLines(r1.m.detailContent), ToLower(r1.m.searchText),
                               Len(r1.m.searchText), 0)
           /\ r3.m.detailViewMode = m.detailViewMode
           /\ r3.m.detailContent = m.detailContent

\* ─── C24 ───────────────────────────────────────────────────────────────────
\* C24: for a decorated string buildCharMap returns a strictly increasing list
\* with one entry per plain byte and a trailing sentinel equal to the string's
\* length, and for every plain range [a,b) the slice of the decorated string
\* between the mapped offsets, its escapes stripped, is plain[a:b].  The empty
\* string gives the sentinel 0 alone; an unterminated escape sequence is
\* consumed to the end of the string and gives no entry.
C24_CharMapRoundTrip ==
    (call.fn = "buildCharMap" /\ call.done) =>
        LET s == call.ansiStr
            cm == call.charMap
            plain == stripANSI(s)
        IN /\ Len(cm) >= 1 /\ cm[Len(cm)] = Len(s)
           /\ \A i \in 1..(Len(cm) - 1) : cm[i] < cm[i + 1]
           /\ s = <<>> => cm = <<0>>
           /\ WellFormed(s) =>
                /\ Len(cm) = Len(plain) + 1
                /\ \A a \in 0..Len(plain) : \A b \in a..Len(plain) :
                      stripANSI(Slice(s, cm[a + 1], cm[b + 1])) = Slice(plain, a, b)
           /\ Unterminated(s) =>
                \E k \in 0..(Len(s) - 2) :
                    /\ WellFormed(Slice(s, 0, k)) /\ s[k + 1] = ESC
                    /\ Len(cm) = Len(stripANSI(Slice(s, 0, k))) + 1
                    /\ \A i \in 1..(Len(cm) - 1) : cm[i] < k

\* A decorated string with an escape sequence before the first of its two or
\* more plain bytes has been mapped.
C24_Witness ==
    /\ call.fn = "buildCharMap" /\ call.done
    /\ WellFormed(call.ansiStr)
    /\ Len(call.charMap) >= 3
    /\ call.charMap[1] > 0

\* ─── C25 ───────────────────────────────────────────────────────────────────
\* s begins with a background code ESC '[' '4' <2, 3 or 9> 'm'.
BeginsWithBg(s) ==
    /\ Len(s) >= 5
    /\ s[1] = ESC /\ s[2] = "[" /\ s[3] = "4" /\ s[4] \in {"2", "3", "9"} /\ s[5] = "m"

\* s without its background codes.
RECURSIVE RemoveBg(_)
RemoveBg(s) ==
    IF s = <<>> THEN <<>>
    ELSE IF BeginsWithBg(s) THEN RemoveBg(Slice(s, 5, Len(s)))
    ELSE <<s[1]>> \o RemoveBg(Tail(s))

\* The background codes of s in order, each named by its colour digit.
RECURSIVE BgCodes(_)
BgCodes(s) ==
    IF s = <<>> THEN <<>>
    ELSE IF BeginsWithBg(s) THEN <<s[4]>> \o BgCodes(Slice(s, 5, Len(s)))
    ELSE BgCodes(Tail(s))

\* The ranges the claim has processed, from range k on: those that start
\* inside the plain text and not before the end of the range processed last.
RECURSIVE Processed(_, _, _, _)
Processed(ranges, k, plainLen, prevEnd) ==
    IF k > Len(ranges) THEN <<>>
    ELSE IF ranges[k][1] >= plainLen \/ ranges[k][1] < prevEnd
         THEN Processed(ranges, k + 1, plainLen, prevEnd)
    ELSE <<k>> \o Processed(ranges, k + 1, plainLen,
                            IF ranges[k][2] > plainLen THEN plainLen ELSE ranges[k][2])

\* C25: injectBgHighlights only inserts codes.  For a decorated line and ranges
\* with start <= end, the output with its background codes removed is the
\* input line; every processed range contributes one start code (current-match
\* colour for the current match, other-match colour otherwise) followed by one
\* reset code; a range that starts at or beyond the end of the plain text, or
\* before the end of the range processed before it, is skipped and leaves the
\* output as it is without that range.
C25_InjectionOnlyInserts ==
    (call.fn = "injectBgHighlights" /\ call.done) =>
        LET line == call.coloredLine
            out == call.result
            P == Processed(call.ranges, 1, Len(stripANSI(line)), 0)
            codes == BgCodes(out)
        IN /\ RemoveBg(out) = line
           /\ Len(codes) = 2 * Len(P)
           /\ \A i \in 1..Len(P) :
                /\ codes[2 * i - 1] =
                      IF call.absIdxs[P[i]] = call.currentIdx THEN "2" ELSE "3"
                /\ codes[2 * i] = "9"
           /\ out = injectBgHighlights(line, [i \in 1..Len(P) |-> call.ranges[P[i]]],
                                       [i \in 1..Len(P) |-> call.absIdxs[P[i]]],
                                       call.currentIdx)
           /\ Len(P) = 0 => out = line

\* A line with an escape sequence and two ranges, the second of which overlaps
\* the first and was skipped.
C25_Witness ==
    /\ call.fn = "injectBgHighlights" /\ call.done
    /\ Len(call.ranges) = 2
    /\ call.ranges[1][1] < call.ranges[1][2]
    /\ call.ranges[2][1] < call.ranges[1][2]
    /\ Len(BgCodes(call.result)) = 2
    /\ call.coloredLine # stripANSI(call.coloredLine)

\* ─── C26 ───────────────────────────────────────────────────────────────────
\* No line of the text holds a CSI escape sequence or an ESC byte.
EscapeFree(text) ==
    \A i \in 1..Len(ClipboardLines(text)) :
        /\ stripANSI(ClipboardLines(text)[i]) = ClipboardLines(text)[i]
        /\ \A k \in 1..Len(ClipboardLines(text)[i]) : ClipboardLines(text)[i][k] # ESC

\* C26: the text handed to the clipboard is never the colorized form.  Every
\* copy command a key produces carries, in JSON or YAML mode, the raw
\* serialization when one is cached, and otherwise the formatted text with
\* its escape sequences stripped; the text of every copy command, issued or
\* running, holds no escape sequence.
C26_ClipboardIsPlain ==
    /\ \A c \in BagToSet(inflight) : c.type = "clipboard" => EscapeFree(c.content)
    /\ status = "running" =>
         \A e \in KeyMsgs :
            LET r == Update(m, e)
            IN \A i \in 1..Len(r.cmds) :
                 r.cmds[i].type = "clipboard" =>
                    /\ EscapeFree(r.cmds[i].content)
                    /\ r.cmds[i].content =
                          IF m.detailViewMode = viewModeJSON /\ m.detailRawJSON # Empty
                          THEN m.detailRawJSON
                          ELSE IF m.detailViewMode = viewModeYAML /\ m.detailRawYAML # Empty
                          THEN m.detailRawYAML
                          ELSE Stripped(m.detailFormatted)

\* A copy made in JSON mode of a loaded detail is running: its text is the raw
\* serialization, while the text shown is colorized.
C26_Witness ==
    /\ m.detailViewMode = viewModeJSON
    /\ m.detailContent = m.detailJSON
    /\ \E i \in 1..Len(Lines(m.detailContent)) :
          stripANSI(Lines(m.detailContent)[i]) # Lines(m.detailContent)[i]
    /\ \E c \in BagToSet(inflight) :
          c.type = "clipboard" /\ c.content = m.detailRawJSON /\ c.content # Empty

\* ─── C27 ───────────────────────────────────────────────────────────────────
\* The left presses on the left column of a terminal of the Model's size.
LeftPresses(mm) ==
    {[type |-> "mouse", button |-> "left", action |-> "press", x |-> 0, y |-> y] :
        y \in 0..(mm.height - 1)}

\* C27 (as claimed): hit-testing uses the layout of the rendering.  A left
\* press on the left column at row y of the work-list region with
\* r = y - consumersHeight - 3 >= 0 and r + manifestOffset inside the visible
\* list selects the visible record r + manifestOffset and fetches its detail;
\* in the consumers region r = y - 2 selects consumer r + consumerOffset and
\* loads its work list; the item selected is the item rendered on row y.
C27_ClickSelectsRenderedItem ==
    (status = "running" /\ m.screen = screenMain /\ Frac40(m.width) > 0) =>
        \A e \in LeftPresses(m) :
            LET r == Update(m, e)
                consumerH == Frac40(m.height - 1)
                visible == filteredManifests(m)
                rm == e.y - consumerH - 3
                rc == e.y - 2
            IN /\ (e.y >= consumerH /\ rm >= 0 /\ rm + m.manifestOffset < Len(visible)) =>
                    /\ r.m.manifestCursor = rm + m.manifestOffset
                    /\ r.cmds = <<loadDetail(visible[rm + m.manifestOffset + 1], "user")>>
                    /\ viewManifestsRow(m, e.y) = rm + m.manifestOffset
               /\ (e.y < consumerH /\ rc >= 0 /\ rc + m.consumerOffset < Len(m.consumers)) =>
                    /\ r.m.consumerCursor = rc + m.consumerOffset
                    /\ r.cmds = <<loadManifests(m.consumers[rc + m.consumerOffset + 1].Name)>>
                    /\ viewConsumersRow(m, e.y) = rc + m.consumerOffset

\* ─── C28 ───────────────────────────────────────────────────────────────────
\* C28 (as claimed): a left click on a list panel that falls on a row that
\* shows no item (the header rows, the rows below the last rendered item, the
\* bottom border, the rows of items beyond the rendered window) gives the
\* panel the focus and does nothing else: no cursor moves, no list and no
\* detail is cleared, no command is issued.
C28_ClickOffItemsOnlyFocuses ==
    (status = "running" /\ m.screen = screenMain /\ Frac40(m.width) > 0) =>
        \A e \in LeftPresses(m) :
            LET r == Update(m, e)
                consumerH == Frac40(m.height - 1)
            IN /\ (e.y < consumerH /\ viewConsumersRow(m, e.y) = -1) =>
                    /\ r.m = [m EXCEPT !.focused = panelConsumers]
                    /\ r.cmds = <<>>
               /\ (e.y >= consumerH /\ e.y < m.height - 1
                     /\ viewManifestsRow(m, e.y) = -1) =>
                    /\ r.m = [m EXCEPT !.focused = panelManifests]
                    /\ r.cmds = <<>>

\* ─── C29 ───────────────────────────────────────────────────────────────────
Called(name) == \E i \in 1..Len(wait.calls) : wait.calls[i] = name

\* C29: the wait command polls only after the consumer validation and the
\* existence check have both succeeded.  A failed validation returns that
\* error itself, a not-found existence check returns the distinguished
\* "ManifestWork not found in consumer" failure, any other existence-check
\* error the "failed to check ManifestWork existence" failure around it, and
\* in none of these cases is WaitForCondition called.
C29_PollingOnlyAfterChecks ==
    wait.pc # "none" =>
        /\ Called("WaitForCondition") =>
              /\ Called("ValidateConsumer") /\ wait.validated = NoError
              /\ Called("GetManifestWorkByNameHTTP") /\ wait.exists = NoError
        /\ wait.outcomes # <<>> => Called("WaitForCondition")
        /\ (wait.pc = "done" /\ wait.validated # NoError) =>
              /\ wait.err = wait.validated
              /\ ~Called("GetManifestWorkByNameHTTP") /\ ~Called("WaitForCondition")
        /\ (wait.pc = "done" /\ wait.exists = ErrNotFound) =>
              /\ wait.err = Message("ManifestWork not found in consumer")
              /\ ~Called("WaitForCondition")
        /\ (wait.pc = "done" /\ wait.exists \notin {NoError, ErrNotFound}) =>
              /\ wait.err = Wrapped("failed to check ManifestWork existence", wait.exists)
              /\ ~Called("WaitForCondition")

\* The command has returned the not-found failure of the existence check.
C29_Witness ==
    /\ wait.pc = "done"
    /\ wait.validated = NoError
    /\ wait.exists = ErrNotFound
    /\ wait.err = Message("ManifestWork not found in consumer")

\* ─── C30 ───────────────────────────────────────────────────────────────────
\* C30: under a 2-second deadline and the 1-second poll interval, a wait whose
\* condition never becomes true (and whose fetches all succeed) ends after
\* exactly two polls with a timeout failure, which is not a transport failure.
C30_TwoPollsThenTimeout ==
    (wait.pc = "done" /\ wait.timeout = 2 /\ Called("WaitForCondition")
       /\ \A i \in 1..Len(wait.outcomes) : wait.outcomes[i] = "unmet") =>
        /\ wait.interval = 1
        /\ Len(wait.outcomes) = 2
        /\ wait.err = Wrapped("error waiting for condition", ErrTimeout)
        /\ wait.err.cause # ErrTransport

\* The wait with --timeout=2s has timed out after polls that found the
\* condition unmet.
C30_Witness ==
    /\ wait.pc = "done"
    /\ wait.timeout = 2
    /\ wait.outcomes = <<"unmet", "unmet">>
    /\ wait.err.kind = "Wrapped" /\ wait.err.cause = ErrTimeout

C32_ClearedDetailStaysCleared ==
    /\ m.detailContent = activeDetailContent(m)
    /\ m.detailContent = Empty =>
          /\ clipboardContent(m) = Empty
          /\ (status = "running" /\ CyclesOn(m)) =>
                Update(m, [type |-> "key", key |-> "v"]).m.detailContent = Empty

\* ─── C33 ───────────────────────────────────────────────────────────────────
\* C33 (as claimed): the records of the work list belong to the consumer
\* under the consumer cursor, and the refresh of the work list (r) and the
\* reload after a deleted record fetch the list of the consumer whose records
\* are listed.
C33_WorkListOfSelectedConsumer ==
    m.manifests # <<>> =>
        /\ m.consumerCursor < Len(m.consumers)
        /\ \A i \in 1..Len(m.manifests) :
              m.manifests[i].ConsumerName = m.consumers[m.consumerCursor + 1].Name
        /\ (status = "running" /\ m.screen = screenMain /\ ~m.showCreateConsumer
              /\ ~m.showConfirm /\ m.focused = panelManifests /\ ~m.filtering) =>
              Update(m, [type |-> "key", key |-> "r"]).cmds
                  = <<loadManifests(m.manifests[1].ConsumerName)>>
        /\ status = "running" =>
              Update(m, [type |-> "manifestDeleted"]).cmds
                  = <<loadManifests(m.manifests[1].ConsumerName)>>

C35_DeleteTargetFixed ==
    (status = "running" /\ m.screen = screenMain /\ ~m.showCreateConsumer) =>
        /\ m.showConfirm =>
              /\ m.confirmKind \in {"consumer", "manifest"}
              /\ \A e \in UserMsgs \cup Arriving(DeleteConsumers, DeleteManifests) :
                    LET r == Update(m, e)
                    IN /\ r.m.confirmKind = m.confirmKind
                       /\ r.m.confirmID = m.confirmID
                       /\ r.m.confirmName = m.confirmName
              /\ \A k \in {"y", "Y"} :
                    LET r == Update(m, [type |-> "key", key |-> k])
                    IN /\ r.m.loading /\ ~r.m.showConfirm
                       /\ r.cmds = IF m.confirmKind = "consumer"
                                   THEN <<deleteConsumerCmd(m.confirmID)>>
                                   ELSE <<deleteManifestCmd(m.confirmID)>>
        /\ ~m.showConfirm =>
              LET r == Update(m, [type |-> "key", key |-> "d"])
              IN r.m.showConfirm =>
                    \/ /\ m.focused = panelConsumers
                       /\ r.m.confirmKind = "consumer"
                       /\ r.m.confirmID = m.consumers[m.consumerCursor + 1].ID
                       /\ r.m.confirmName = m.consumers[m.consumerCursor + 1].Name
                    \/ /\ m.focused = panelManifests
                       /\ r.m.confirmKind = "manifest"
                       /\ r.m.confirmID = selectedManifest(m).ID
                       /\ r.m.confirmName = selectedManifest(m).Name

\* The modal is open on a work record and the work list has changed under it:
\* the record it names is no longer the selected one.
C35_Witness ==
    /\ status = "running"
    /\ m.showConfirm
    /\ m.confirmKind = "manifest"
    /\ selectedManifest(m).ID # m.confirmID

\* ─── C36 ───────────────────────────────────────────────────────────────────
\* C36: whenever loading (or connectLoading) is set, a command is in flight
\* whose every completion message, success or failure, clears it; so, commands
\* completing eventually, a set indicator is always cleared again (or the
\* program has ended).
C36_LoadingNeverStuck ==
    /\ [](status = "running" =>
            /\ m.loading =>
                  \E c \in BagToSet(inflight) :
                      /\ Fails(c) # {}
                      /\ \A e \in Succeeds(c, WatchConsumers, WatchManifests) \cup Fails(c) :
                            ~Update(m, e).m.loading
            /\ m.connectLoading =>
                  \E c \in BagToSet(inflight) :
                      /\ Fails(c) # {}
                      /\ \A e \in Succeeds(c, WatchConsumers, WatchManifests) \cup Fails(c) :
                            ~Update(m, e).m.connectLoading)
    /\ (status = "running" /\ m.loading) ~> (~m.loading \/ status # "running")
    /\ (status = "running" /\ m.connectLoading)
            ~> (~m.connectLoading \/ status # "running")

\* The work list is being loaded after a click on the consumer, the fetch of a
\* detail still running beside it.
C36_Witness ==
    /\ status = "running"
    /\ m.loading
    /\ BagIn(loadManifests(ConsumerInfo(1).Name), inflight)
    /\ DetailFetches > 0

\* ─── C37 ───────────────────────────────────────────────────────────────────
\* C37 (as claimed): the status message and the error message are never both
\* set, and a message that sets the one clears the other.
C37_StatusOrError ==
    /\ ~(m.statusMsg # Empty /\ m.errMsg2 # Empty)
    /\ status = "running" =>
          \A e \in UserMsgs \cup Arriving(WatchConsumers, WatchManifests) :
              LET r == Update(m, e)
              IN /\ r.m.statusMsg # m.statusMsg /\ r.m.statusMsg # Empty
                        => r.m.errMsg2 = Empty
                 /\ r.m.errMsg2 # m.errMsg2 /\ r.m.errMsg2 # Empty
                        => r.m.statusMsg = Empty

\* ─── C38 ───────────────────────────────────────────────────────────────────
\* C38 (as claimed): one Update step scrolls the detail viewport by one fixed
\* step: a line for a scroll key pressed with the detail panel focused, three
\* lines for a wheel step over the detail.
C38_ScrollsOneStep ==
    (status = "running" /\ call.fn = "viewport" /\ m.screen = screenMain) =>
        LET vp == call.viewport
            wheel(b) == [type |-> "mouse", button |-> b, action |-> "press",
                         x |-> TermWidth - 1, y |-> 0]
        IN /\ (m.focused = panelDetail /\ ~m.searching /\ ~m.filtering
                 /\ ~m.showCreateConsumer /\ ~m.showConfirm) =>
                 /\ \A k \in {"down", "j"} :
                       UpdateViewport(m, vp, [type |-> "key", key |-> k]) = ScrollDown(vp, 1)
                 /\ \A k \in {"up", "k"} :
                       UpdateViewport(m, vp, [type |-> "key", key |-> k]) = ScrollUp(vp, 1)
           /\ UpdateViewport(m, vp, wheel("wheeldown")) = ScrollDown(vp, 3)
           /\ UpdateViewport(m, vp, wheel("wheelup")) = ScrollUp(vp, 3)

\* ─── C39 ───────────────────────────────────────────────────────────────────
\* C39 (as claimed): for every string, malformed and unterminated escape
\* sequences included, buildCharMap has one entry per byte of stripANSI of the
\* string, and the sentinel.
C39_CharMapAgreesWithStrip ==
    (call.fn = "buildCharMap" /\ call.done) =>
        Len(call.charMap) - 1 = Len(stripANSI(call.ansiStr))

\* ─── C40 ───────────────────────────────────────────────────────────────────
\* C40: the scroll offsets of the two lists are 0 and no message changes them,
\* wherever the cursors are; so the rows of a list panel show the first window
\* of the list, and a click on a row selects the item whose index is the row's
\* distance from the first item row.
C40_OffsetsStayZero ==
    /\ m.consumerOffset = 0 /\ m.manifestOffset = 0
    /\ status = "running" =>
          \A e \in UserMsgs \cup Arriving(ClickConsumers, ClickManifests) :
              LET r == Update(m, e)
              IN r.m.consumerOffset = 0 /\ r.m.manifestOffset = 0
    /\ \A y \in 0..(ClickHeight - 1) :
          /\ viewConsumersRow(m, y) \in {-1, y - 2}
          /\ viewManifestsRow(m, y) \in {-1, y - Frac40(m.height - 1) - 3}

\* The work-list cursor is on a record below the window of the panel, which
\* has not scrolled: no row shows the record.
C40_Witness ==
    /\ status = "running"
    /\ m.manifestCursor > 0
    /\ m.manifestCursor < Len(filteredManifests(m))
    /\ \A y \in 0..(ClickHeight - 1) : viewManifestsRow(m, y) # m.manifestCursor

====
